---- MODULE Spec2Model ----
(***************************************************************************)
(* A model of the cpu-power-model-training tools:                          *)
(*   - DatasetMerger (src/merge_datasets.py): closest-timestamp matching   *)
(*     of VM feature points against bare-metal power points.               *)
(*   - VMFeatureCollector (src/vm_feature_collector): the collection loop  *)
(*     and the synchronized (T0, T1) window of one feature point.          *)
(*                                                                         *)
(* The collector's wall clock is an integer count of seconds that the      *)
(* environment advances; time.sleep(d) returns once at least d has passed. *)
(*                                                                         *)
(* Timestamps, tolerances and wattages are floats in the source.  They are *)
(* modelled as integers counting a fixed unit (one TimeUnit of time, one   *)
(* unit of power); the matcher only subtracts, takes absolute values and   *)
(* compares them, and those operations are order-preserving on floats.     *)
(* A mean (np.mean) is kept as the pair [sum, n] it is the quotient of.    *)
(***************************************************************************)
EXTENDS Integers, Sequences, FiniteSets, TLC

\* ------------------------------------------------------------------ bounds
MaxTime == 1          \* timestamps of the input files range over 0..MaxTime
MaxFeatures == 2      \* a feature file holds at most this many points
MaxLabels == 3        \* a power file holds at most this many rows
MaxTol == 1           \* time_tolerance ranges over 0..MaxTol
MaxWatts == 1         \* a zone's wattage is 0 or MaxWatts
MaxMergeCalls == 2    \* merge_datasets is called at most this often on one merger
MaxClock == 3         \* the collector's clock runs over 0..MaxClock
MaxInterval == 2      \* collection_interval ranges over 1..MaxInterval
MaxDuration == 3      \* the collection duration ranges over 1..MaxDuration
MaxCounter == 1       \* the OS counters range over 0..MaxCounter
MaxBmClock == 3       \* the power collector's clock runs over 0..MaxBmClock
MaxBmInterval == 2    \* its collection_interval ranges over 1..MaxBmInterval
MaxBmDuration == 3    \* its duration ranges over 1..MaxBmDuration
MaxRetries == 2       \* max_retries ranges over 1..MaxRetries
MaxSyncStart == 1     \* sync_start_time, when given, ranges over 0..MaxSyncStart
MaxReadings == 2      \* a scrape has at most MaxReadings target-metric lines
MaxJiffies == 13      \* the idle counter of a later snapshot ranges over 0..MaxJiffies
MaxPmcCount == 2      \* a performance counter's count ranges over 0..MaxPmcCount
MaxLines == 3         \* a scrape text has at most MaxLines lines
MaxSummaryPoints == 10 \* a summary is printed for at most this many feature points

VARIABLES
    \* DatasetMerger
    time_tolerance,        \* self.time_tolerance
    min_power_threshold,   \* self.min_power_threshold
    power_zone,            \* self.power_zone
    vm_data,               \* self.vm_data
    bm_data,               \* self.bm_data
    merged_data,           \* self.merged_data
    statistics,            \* self.statistics
    merge_pc,              \* position of merge_datasets.main
    merge_calls,           \* number of merge_datasets calls made so far
    merge_budget,          \* number of merge_datasets calls the caller makes
    merge_result,          \* return value of the last merge_datasets call
    output_file,           \* the merged dataset main has saved, if any
    summary,               \* what print_merge_summary has printed, if called
    \* VMFeatureCollector and its environment
    clock,                 \* time.time()
    os_context_switches,   \* the cumulative ctxt counter of /proc/stat
    synchronized,          \* self.synchronized
    collection_interval,   \* self.collection_interval
    available_pmcs,        \* self.available_pmcs is not empty
    duration,              \* the duration collect_vm_features is called with
    feature_data,          \* self.feature_data
    collection_active,     \* self.collection_active
    shutdown_requested,    \* self._shutdown_requested
    prev_proc_stat,        \* self.prev_proc_stat
    vc_pc,                 \* position of the collector's main thread
    vc_loop,               \* locals of collect_vm_features
    vc_cycle,              \* locals of the running collect_feature_point call
    signals,               \* number of SIGINT/SIGTERM deliveries so far
    perf_process,          \* the perf child of subprocess.run: none, running or killed
    feature_file,          \* the feature file on disk, if collect_vm_features opened it
    \* BaremetalPowerCollector and its environment
    bm_clock,              \* time.time() on the bare-metal host
    kepler_scrapes,        \* what Kepler answers: steady readings, or any scrape
    bm_collection_interval,\* self.collection_interval
    max_retries,           \* self.max_retries
    target_vms,            \* self.target_vms
    vm_pattern,            \* self.vm_pattern
    sync_start_time,       \* self.sync_start_time
    bm_duration,           \* the duration collect_power_data is called with
    power_data,            \* self.power_data
    bm_collection_active,  \* self.collection_active
    bm_shutdown_requested, \* self._shutdown_requested
    collection_start_time, \* self.collection_start_time
    bp_pc,                 \* position of the power collector's main thread
    bp_loop,               \* locals of collect_power_data
    bp_fetch,              \* locals of collect_power_metrics_with_timestamp
    power_file,            \* the power file on disk, if collect_power_data opened it
    \* One call of a function of the collectors or the merger on given arguments
    fn_call,               \* the function called, its arguments and its result
    \* TrainingDataOrchestrator (orchestrate_training_data_collection.py)
    orch_pc,               \* position of orchestrate_collection
    orch_outcome,          \* how control leaves the try block: return, raise or exit
    ssh_client,            \* self.ssh_client
    ssh_connection,        \* the connection to the VM behind self.ssh_client
    orch_collection_active,  \* self.collection_active
    orch_shutdown_requested, \* self._shutdown_requested
    orch_signals,          \* signals delivered to the orchestrator so far
    bm_power_process,      \* self.bm_power_process
    bm_child,              \* the bm_power_collector.py child process
    child_cycles,          \* collection cycles the child has still to run
    pipe_fill,             \* log lines held in the child's stderr pipe
    remote_stress,         \* the stress_workloads.py process on the VM
    remote_collector,      \* the vm_feature_collector.py process on the VM
    vm_features_file,      \* the feature file on the VM
    local_vm_features_file, \* the copy of the feature file on the host
    orch_log               \* what the cleanup routines logged, in order

merger_vars == <<time_tolerance, min_power_threshold, power_zone, vm_data, bm_data,
                 merged_data, statistics, merge_pc, merge_calls, merge_budget,
                 merge_result, output_file, summary>>

collector_vars == <<clock, os_context_switches, synchronized, collection_interval,
                    available_pmcs, duration, feature_data, collection_active,
                    shutdown_requested, prev_proc_stat, vc_pc, vc_loop, vc_cycle,
                    signals, perf_process, feature_file>>

power_vars == <<bm_clock, kepler_scrapes, bm_collection_interval, max_retries, target_vms,
                vm_pattern, sync_start_time, bm_duration, power_data,
                bm_collection_active, bm_shutdown_requested, collection_start_time,
                bp_pc, bp_loop, bp_fetch, power_file>>

orch_vars == <<orch_pc, orch_outcome, ssh_client, ssh_connection, orch_collection_active,
               orch_shutdown_requested, orch_signals, bm_power_process, bm_child,
               child_cycles, pipe_fill, remote_stress, remote_collector,
               vm_features_file, local_vm_features_file, orch_log>>

vars == <<merger_vars, collector_vars, power_vars, fn_call, orch_vars>>

\* TrainingDataOrchestrator.__init__; orch_pc is "off" where no orchestrator runs
OrchestratorFields ==
    /\ orch_outcome = "none"
    /\ ssh_client = "none"
    /\ ssh_connection = "none"
    /\ orch_collection_active = FALSE
    /\ orch_shutdown_requested = FALSE
    /\ orch_signals = 0
    /\ bm_power_process = "none"
    /\ bm_child = "absent"
    /\ child_cycles = 0
    /\ pipe_fill = 0
    /\ remote_stress = "absent"
    /\ remote_collector = "absent"
    /\ vm_features_file = "absent"
    /\ local_vm_features_file = "absent"
    /\ orch_log = <<>>

OrchestratorIdle == orch_pc = "off" /\ OrchestratorFields

\* ------------------------------------------------------------------ helpers
Abs(x) == IF x < 0 THEN -x ELSE x

Max2(a, b) == IF a >= b THEN a ELSE b

RECURSIVE SeqSum(_)
SeqSum(s) == IF s = <<>> THEN 0 ELSE Head(s) + SeqSum(Tail(s))

RECURSIVE SeqMin(_)
SeqMin(s) == IF Len(s) = 1 THEN s[1]
             ELSE LET m == SeqMin(Tail(s)) IN IF s[1] <= m THEN s[1] ELSE m

RECURSIVE SeqMax(_)
SeqMax(s) == IF Len(s) = 1 THEN s[1]
             ELSE LET m == SeqMax(Tail(s)) IN IF s[1] >= m THEN s[1] ELSE m

\* float('inf'), the initial closest_diff: a value no time difference takes
Infinity == -1

\* time_diff < closest_diff, closest_diff possibly float('inf')
LessThan(a, b) == b = Infinity \/ (b # Infinity /\ a < b)

\* An Optional value: None, or Some(x) holding x
None == <<>>

Some(x) == <<x>>

TheValue(opt) == opt[1]

\* The factor of a percentage
Hundred == 100

\* No function has been called
NoCall == [fn |-> "none"]

\* ------------------------------------------------------------------ merger
\* MergeStatistics(): the dataclass defaults
MergeStatistics ==
    [vm_feature_points |-> 0, bm_power_points |-> 0, matched_points |-> 0,
     unmatched_vm_points |-> 0, unmatched_bm_points |-> 0,
     time_range_vm |-> <<0, 0>>, time_range_bm |-> <<0, 0>>,
     time_range_merged |-> <<0, 0>>, power_range |-> <<0, 0>>,
     average_time_diff |-> [sum |-> 0, n |-> 1], max_time_diff |-> 0]

\* list.sort(key=lambda x: x['timestamp']): a stable sort, as an insertion sort
RECURSIVE InsertByTimestamp(_, _)
InsertByTimestamp(x, s) ==
    IF s = <<>> THEN <<x>>
    ELSE IF Head(s).timestamp <= x.timestamp
         THEN <<Head(s)>> \o InsertByTimestamp(x, Tail(s))
         ELSE <<x>> \o s

RECURSIVE SortFrom(_, _)
SortFrom(s, acc) ==
    IF s = <<>> THEN acc ELSE SortFrom(Tail(s), InsertByTimestamp(Head(s), acc))

\* A load that keeps the file's order
KeepFileOrder(s) == s

\* sorted(points, key=timestamp)
SortByTimestamp(s) == SortFrom(s, <<>>)

\* The feature points a feature file can hold (JSON array of VMFeaturePoint dicts)
VMPoints == [timestamp : 0..MaxTime]

\* The rows a power file can hold (CSV rows written by the power collector)
BMPoints == {[timestamp |-> t, total_cpu_watts_core |-> w,
              total_cpu_watts_package |-> MaxWatts - w] :
                 t \in 0..MaxTime, w \in {0, MaxWatts}}

SeqsUpTo(S, n) == UNION {[1..k -> S] : k \in 0..n}

FeatureFiles == SeqsUpTo(VMPoints, MaxFeatures)

PowerFiles == SeqsUpTo(BMPoints, MaxLabels)

\* DatasetMerger.__init__
MergerInit ==
    /\ vm_data = <<>>
    /\ bm_data = <<>>
    /\ merged_data = <<>>
    /\ statistics = MergeStatistics
    /\ merge_pc = "load_vm"
    /\ merge_calls = 0
    /\ merge_result = "None"
    /\ output_file = None
    /\ summary = None

\* DatasetMerger.load_vm_features, as main calls it: an empty (or missing) file
\* makes it return False and main exit with status 1
load_vm_features(file) ==
    /\ merge_pc = "load_vm"
    /\ IF file = <<>>
       THEN /\ merge_pc' = "exit_1"
            /\ UNCHANGED <<vm_data, statistics>>
       ELSE LET sorted == SortByTimestamp(file) IN
            /\ vm_data' = sorted
            /\ statistics' = [statistics EXCEPT
                   !.vm_feature_points = Len(sorted),
                   !.time_range_vm = <<sorted[1].timestamp, sorted[Len(sorted)].timestamp>>]
            /\ merge_pc' = "load_bm"
    /\ UNCHANGED <<time_tolerance, min_power_threshold, power_zone, bm_data,
                   merged_data, merge_calls, merge_budget, merge_result, output_file,
                   summary>>

\* DatasetMerger.load_bm_power, as main calls it
load_bm_power(file) ==
    /\ merge_pc = "load_bm"
    /\ IF file = <<>>
       THEN /\ merge_pc' = "exit_1"
            /\ UNCHANGED <<bm_data, statistics>>
       ELSE LET sorted == SortByTimestamp(file) IN
            /\ bm_data' = sorted
            /\ statistics' = [statistics EXCEPT
                   !.bm_power_points = Len(sorted),
                   !.time_range_bm = <<sorted[1].timestamp, sorted[Len(sorted)].timestamp>>]
            /\ merge_pc' = "merge"
    /\ UNCHANGED <<time_tolerance, min_power_threshold, power_zone, vm_data,
                   merged_data, merge_calls, merge_budget, merge_result, output_file,
                   summary>>

\* ScanFrom with the tolerance test off by one unit
RECURSIVE ScanFromLooseTolerance(_, _, _)
ScanFromLooseTolerance(i, target_timestamp, st) ==
    IF i >= Len(bm_data) THEN st
    ELSE LET power_point == bm_data[i + 1]
             time_diff == Abs(power_point.timestamp - target_timestamp)
         IN  IF time_diff <= time_tolerance + 1 /\ LessThan(time_diff, st.closest_diff)
             THEN ScanFromLooseTolerance(i + 1, target_timestamp,
                           [closest_point |-> Some(power_point), closest_diff |-> time_diff,
                            closest_idx |-> i])
             ELSE IF power_point.timestamp > target_timestamp + time_tolerance
                  THEN st
                  ELSE ScanFromLooseTolerance(i + 1, target_timestamp, st)

\* The loop of _find_closest_power_point from index i (0-based, as in the source)
\* with the locals st = [closest_point, closest_diff, closest_idx]
RECURSIVE ScanFrom(_, _, _)
ScanFrom(i, target_timestamp, st) ==
    IF i >= Len(bm_data) THEN st
    ELSE LET power_point == bm_data[i + 1]
             time_diff == Abs(power_point.timestamp - target_timestamp)
         IN  IF time_diff <= time_tolerance /\ LessThan(time_diff, st.closest_diff)
             THEN ScanFrom(i + 1, target_timestamp,
                           [closest_point |-> Some(power_point), closest_diff |-> time_diff,
                            closest_idx |-> i])
             ELSE IF power_point.timestamp > target_timestamp + time_tolerance
                  THEN st
                  ELSE ScanFrom(i + 1, target_timestamp, st)

\* find_closest_power_point falling back to the first scanned row when no row is
\* within the tolerance
FindClosestWithFallback(target_timestamp, bm_start_idx) ==
    LET st == ScanFrom(bm_start_idx, target_timestamp,
                       [closest_point |-> None, closest_diff |-> Infinity,
                        closest_idx |-> bm_start_idx])
    IN  IF st.closest_point = None /\ bm_start_idx < Len(bm_data)
        THEN <<Some(bm_data[bm_start_idx + 1]), bm_start_idx>>
        ELSE <<st.closest_point, st.closest_idx>>

\* DatasetMerger._find_closest_power_point: returns (closest_point, closest_idx)
find_closest_power_point(target_timestamp, bm_start_idx) ==
    LET st == ScanFrom(bm_start_idx, target_timestamp,
                       [closest_point |-> None, closest_diff |-> Infinity,
                        closest_idx |-> bm_start_idx])
    IN  <<st.closest_point, st.closest_idx>>

\* _get_power_label reading the core zone whatever the selection
GetPowerLabelCoreOnly(power_point) == power_point.total_cpu_watts_core

\* DatasetMerger._get_power_label
get_power_label(power_point) ==
    IF power_zone = "core" THEN power_point.total_cpu_watts_core
    ELSE IF power_zone = "package" THEN power_point.total_cpu_watts_package
    ELSE power_point.total_cpu_watts_core

\* The cursor moved past the matched row instead of one row before it
NextSearchStartPastMatch(search_idx) == search_idx + 1

\* The cursor update after an accepted match
NextSearchStart(search_idx) == Max2(0, search_idx - 1)

\* The merged point built from a feature point and its matched power point
\* (the vm_count and bm_collection_interval metadata copied along are left out)
MergedPoint(vm_point, power_point, power_value) ==
    [timestamp |-> vm_point.timestamp,
     power_watts |-> power_value,
     power_zone |-> power_zone,
     bm_timestamp |-> power_point.timestamp,
     time_diff |-> Abs(vm_point.timestamp - power_point.timestamp)]

\* One iteration of the loop of merge_datasets over vm_point, from the locals
\* loc = [merged, matched_count, time_diffs, power_values, bm_search_start]
MergeIteration(loc, vm_point) ==
    LET found == find_closest_power_point(vm_point.timestamp, loc.bm_search_start)
        power_point == found[1]
        search_idx == found[2]
    IN  IF power_point # None
        THEN LET power_value == get_power_label(TheValue(power_point)) IN
             IF power_value >= min_power_threshold
             THEN LET merged_point == MergedPoint(vm_point, TheValue(power_point),
                                                  power_value) IN
                  [merged |-> Append(loc.merged, merged_point),
                   matched_count |-> loc.matched_count + 1,
                   time_diffs |-> Append(loc.time_diffs, merged_point.time_diff),
                   power_values |-> Append(loc.power_values, power_value),
                   bm_search_start |-> NextSearchStart(search_idx)]
             ELSE loc
        ELSE loc

\* The locals of merge_datasets after its loop has processed the first k feature
\* points; merged is self.merged_data
RECURSIVE MergeLoop(_)
MergeLoop(k) ==
    IF k = 0
    THEN [merged |-> merged_data, matched_count |-> 0, time_diffs |-> <<>>,
          power_values |-> <<>>, bm_search_start |-> 0]
    ELSE MergeIteration(MergeLoop(k - 1), vm_data[k])

\* The statistics update counting the unmatched features against the power rows
MergeStatisticsUpdateWrongSide(loc) ==
    [statistics EXCEPT
        !.matched_points = loc.matched_count,
        !.unmatched_vm_points = Len(bm_data) - loc.matched_count,
        !.unmatched_bm_points = Len(bm_data),
        !.average_time_diff = IF loc.time_diffs # <<>>
                              THEN [sum |-> SeqSum(loc.time_diffs), n |-> Len(loc.time_diffs)]
                              ELSE @,
        !.max_time_diff = IF loc.time_diffs # <<>> THEN SeqMax(loc.time_diffs) ELSE @]

\* The statistics update that ends merge_datasets
MergeStatisticsUpdate(loc) ==
    LET s1 == [statistics EXCEPT
                  !.matched_points = loc.matched_count,
                  !.unmatched_vm_points = Len(vm_data) - loc.matched_count,
                  !.unmatched_bm_points = Len(bm_data)]
        s2 == IF loc.time_diffs # <<>>
              THEN [s1 EXCEPT
                      !.average_time_diff = [sum |-> SeqSum(loc.time_diffs),
                                             n |-> Len(loc.time_diffs)],
                      !.max_time_diff = SeqMax(loc.time_diffs)]
              ELSE s1
        s3 == IF loc.power_values # <<>>
              THEN [s2 EXCEPT !.power_range = <<SeqMin(loc.power_values),
                                               SeqMax(loc.power_values)>>]
              ELSE s2
        merged_timestamps == [j \in 1..Len(loc.merged) |-> loc.merged[j].timestamp]
    IN  IF loc.merged # <<>>
        THEN [s3 EXCEPT !.time_range_merged = <<SeqMin(merged_timestamps),
                                               SeqMax(merged_timestamps)>>]
        ELSE s3

\* A return value that asks for every feature to be matched
MergeReturnValueAllMatched(loc) ==
    IF loc.matched_count = Len(vm_data) THEN "True" ELSE "False"

\* return matched_count > 0
MergeReturnValue(loc) ==
    IF loc.matched_count > 0 THEN "True" ELSE "False"

\* DatasetMerger.merge_datasets
merge_datasets ==
    /\ merge_pc = "merge"
    /\ merge_calls < merge_budget
    /\ merge_calls' = merge_calls + 1
    /\ IF vm_data = <<>> \/ bm_data = <<>>
       THEN /\ merge_result' = "False"
            /\ UNCHANGED <<merged_data, statistics>>
       ELSE LET loc == MergeLoop(Len(vm_data)) IN
            /\ merged_data' = loc.merged
            /\ statistics' = MergeStatisticsUpdate(loc)
            /\ merge_result' = MergeReturnValue(loc)
    /\ UNCHANGED <<time_tolerance, min_power_threshold, power_zone, vm_data, bm_data,
                   merge_pc, merge_budget, output_file, summary>>

\* The thresholds of the quality rating, in percent
ExcellentRate == 90

GoodRate == 80

FairRate == 60

\* A rating that takes a match rate of exactly 80 percent for Fair
QualityRatingStrict(matched_points, vm_feature_points) ==
    LET points == Max2(1, vm_feature_points) IN
    IF matched_points * Hundred >= ExcellentRate * points THEN "Excellent"
    ELSE IF matched_points * Hundred > GoodRate * points THEN "Good"
    ELSE IF matched_points * Hundred >= FairRate * points THEN "Fair"
    ELSE "Poor"

\* The rating of data_quality = (matched_points / max(1, vm_feature_points)) * 100
QualityRating(matched_points, vm_feature_points) ==
    LET points == Max2(1, vm_feature_points) IN
    IF matched_points * Hundred >= ExcellentRate * points THEN "Excellent"
    ELSE IF matched_points * Hundred >= GoodRate * points THEN "Good"
    ELSE IF matched_points * Hundred >= FairRate * points THEN "Fair"
    ELSE "Poor"

\* DatasetMerger.print_merge_summary: the quality rating it prints ("none" when
\* it prints no rating), whether it prints the recommendations heading, and the
\* recommendations it prints under it (the low-power one is left out)
print_merge_summary(stats, tolerance) ==
    LET points == Max2(1, stats.vm_feature_points)
        low == stats.matched_points * Hundred < GoodRate * points
    IN  IF stats.matched_points > 0
        THEN [quality_rating |-> QualityRating(stats.matched_points,
                                               stats.vm_feature_points),
              recommendations |-> low,
              advice |->
                 IF low
                 THEN {r \in {"tolerance", "synchronization"} :
                         \/ /\ r = "tolerance"
                            /\ 2 * stats.average_time_diff.sum
                                  > tolerance * stats.average_time_diff.n
                         \/ /\ r = "synchronization"
                            /\ 5 * stats.unmatched_vm_points > stats.matched_points}
                 ELSE {}]
        ELSE [quality_rating |-> "none", recommendations |-> FALSE, advice |-> {}]

\* main after merge_datasets has returned False: sys.exit(1)
MainMergeFailed ==
    /\ merge_pc = "merge"
    /\ merge_budget = 1
    /\ merge_calls = 1
    /\ merge_result = "False"
    /\ merge_pc' = "exit_1"
    /\ UNCHANGED <<time_tolerance, min_power_threshold, power_zone, vm_data, bm_data,
                   merged_data, statistics, merge_calls, merge_budget, merge_result,
                   output_file, summary>>

\* main after merge_datasets has returned True, when save_merged_dataset fails
\* to write: sys.exit(1)
MainSaveFails ==
    /\ merge_pc = "merge"
    /\ merge_budget = 1
    /\ merge_calls = 1
    /\ merge_result = "True"
    /\ merge_pc' = "exit_1"
    /\ UNCHANGED <<time_tolerance, min_power_threshold, power_zone, vm_data, bm_data,
                   merged_data, statistics, merge_calls, merge_budget, merge_result,
                   output_file, summary>>

\* main after merge_datasets has returned True: the dataset is saved, the summary
\* is printed and main returns
MainSaves ==
    /\ merge_pc = "merge"
    /\ merge_budget = 1
    /\ merge_calls = 1
    /\ merge_result = "True"
    /\ IF merged_data = <<>>
       THEN /\ merge_pc' = "exit_1"
            /\ UNCHANGED <<output_file, summary>>
       ELSE /\ output_file' = Some(merged_data)
            /\ summary' = Some(print_merge_summary(statistics, time_tolerance))
            /\ merge_pc' = "exit_0"
    /\ UNCHANGED <<time_tolerance, min_power_threshold, power_zone, vm_data, bm_data,
                   merged_data, statistics, merge_calls, merge_budget, merge_result>>

\* ------------------------------------------------------------------ collector
\* A Python dict, as a set of <<key, value>> pairs
EmptyDict == {}

\* dict.get(key, default)
Get(d, key, default) ==
    IF \E kv \in d : kv[1] = key THEN (CHOOSE kv \in d : kv[1] = key)[2] ELSE default

\* max(1e-6, t1 - t0): 1e-6 s is below the clock's resolution
MinTimeDelta == 0

\* VMFeatureCollector._read_proc_stat: the snapshot of the cumulative counters
read_proc_stat == {<<"context_switches", os_context_switches>>}

\* Python floats, as binary floating point with round-to-nearest-even.  A float
\* is the integer count of 2^-ScaleBits units it is worth; every operation
\* rounds its exact result to MantissaBits significant bits (53 in the source:
\* the rounding errors of the model have the same form and a larger size).
MantissaBits == 5

ScaleBits == 12

FloatOne == 2 ^ ScaleBits

\* float(i) of a small integer: exact
Float(i) == i * FloatOne

\* The spacing of the floats around a magnitude of q units
RECURSIVE Spacing(_, _)
Spacing(q, step) == IF q >= step * (2 ^ MantissaBits) THEN Spacing(q, 2 * step) ELSE step

\* The float nearest to the rational n / d units (d > 0), ties to even
FRound(n, d) ==
    LET a == Abs(n)
        step == Spacing(a \div d, 1)
        q == (a \div d) \div step
        rem == a - q * d * step
        up == 2 * rem > d * step \/ (2 * rem = d * step /\ q % 2 = 1)
        m == (IF up THEN q + 1 ELSE q) * step
    IN  IF n < 0 THEN -m ELSE m

\* a / b, a * b, a + b, a - b on floats (b # 0 in a / b)
FDiv(a, b) == FRound(a * FloatOne, b)

FMul(a, b) == FRound(a * b, FloatOne)

FAdd(a, b) == FRound(a + b, 1)

FSub(a, b) == FRound(a - b, 1)

\* os.sysconf('SC_CLK_TCK'), and the fallback value of the source
JiffiesPerSecond == 100

\* The fields of the cpu line, in the order the loops go through them
CpuFields == <<"user", "nice", "system", "idle", "iowait", "irq", "softirq", "steal">>

\* delta_jiffies = max(0, curr_val - prev_val) of one field of the cpu line
DeltaJiffies(prev_cpu, curr_cpu, field) ==
    Max2(0, Get(curr_cpu, field, 0) - Get(prev_cpu, field, 0))

\* total_delta after the loop has gone through the first k fields
RECURSIVE TotalDelta(_, _, _)
TotalDelta(prev_cpu, curr_cpu, k) ==
    IF k = 0 THEN 0
    ELSE TotalDelta(prev_cpu, curr_cpu, k - 1) + DeltaJiffies(prev_cpu, curr_cpu, CpuFields[k])

\* cpu_deltas[field]: delta_jiffies / jiffies_per_second
CpuDeltaSeconds(prev_cpu, curr_cpu, field) ==
    FDiv(Float(DeltaJiffies(prev_cpu, curr_cpu, field)), Float(JiffiesPerSecond))

\* deltas[out] = max(0, curr_stat.get(key, 0) - prev_stat.get(key, 0))
CounterDelta(prev_stat, curr_stat, key, out) ==
    {<<out, Max2(0, Get(curr_stat, key, 0) - Get(prev_stat, key, 0))>>}

\* deltas['sys_cpu_utilization']
CpuUtilization(prev_cpu, curr_cpu) ==
    LET total_delta == TotalDelta(prev_cpu, curr_cpu, Len(CpuFields))
        idle_jiffies == FMul(CpuDeltaSeconds(prev_cpu, curr_cpu, "idle"),
                             Float(JiffiesPerSecond))
        active_jiffies == FSub(Float(total_delta), idle_jiffies)
    IN  IF total_delta > 0
        THEN FMul(FDiv(active_jiffies, Float(total_delta)), Float(Hundred))
        ELSE 0

\* The outputs of _compute_proc_stat_deltas for the cpu line (the per-field
\* percentages are left out)
CpuOutputs(prev_cpu, curr_cpu) ==
    IF prev_cpu = EmptyDict \/ curr_cpu = EmptyDict THEN {}
    ELSE {<<"sys_cpu_user_seconds", CpuDeltaSeconds(prev_cpu, curr_cpu, "user")>>,
          <<"sys_cpu_system_seconds", CpuDeltaSeconds(prev_cpu, curr_cpu, "system")>>,
          <<"sys_cpu_total_seconds",
            FAdd(FAdd(CpuDeltaSeconds(prev_cpu, curr_cpu, "user"),
                      CpuDeltaSeconds(prev_cpu, curr_cpu, "system")),
                 CpuDeltaSeconds(prev_cpu, curr_cpu, "nice"))>>,
          <<"sys_cpu_utilization", CpuUtilization(prev_cpu, curr_cpu)>>}

\* VMFeatureCollector._compute_proc_stat_deltas
compute_proc_stat_deltas(prev_stat, curr_stat, time_delta) ==
    IF prev_stat = EmptyDict \/ curr_stat = EmptyDict THEN EmptyDict
    ELSE CpuOutputs(Get(prev_stat, "cpu", EmptyDict), Get(curr_stat, "cpu", EmptyDict))
         \cup CounterDelta(prev_stat, curr_stat, "context_switches", "sys_context_switches")
         \cup CounterDelta(prev_stat, curr_stat, "processes_created", "sys_processes_created")
         \cup {<<"sys_procs_running", Get(curr_stat, "procs_running", 0)>>,
               <<"sys_procs_blocked", Get(curr_stat, "procs_blocked", 0)>>}

\* deltas[k] of _compute_os_metrics_from_snapshots
OsDelta(t0, t1, k) == Max2(0, Get(t1, k, 0) - Get(t0, k, 0))

RECURSIVE OsDeltaSum(_, _, _)
OsDeltaSum(t0, t1, k) ==
    IF k = 0 THEN 0 ELSE FAdd(OsDeltaSum(t0, t1, k - 1), OsDelta(t0, t1, CpuFields[k]))

\* total = sum(deltas.values()) or time_delta or 1.0
OsTotal(t0, t1, time_delta) ==
    LET sum == OsDeltaSum(t0, t1, Len(CpuFields)) IN
    IF sum # 0 THEN sum ELSE IF time_delta # 0 THEN time_delta ELSE FloatOne

\* VMFeatureCollector._compute_os_metrics_from_snapshots, for the cpu times
\* (floats of seconds in both snapshots) and the network counters
compute_os_metrics_from_snapshots(snap0, snap1, time_delta) ==
    LET t0 == Get(snap0, "cpu_times", EmptyDict)
        t1 == Get(snap1, "cpu_times", EmptyDict)
        total == OsTotal(t0, t1, time_delta)
        percent(k) == FMul(FDiv(OsDelta(t0, t1, k), total), Float(Hundred))
        n0 == Get(snap0, "net_io", EmptyDict)
        n1 == Get(snap1, "net_io", EmptyDict)
    IN  {<<"cpu_user_time", percent("user")>>,
         <<"cpu_system_time", percent("system")>>,
         <<"cpu_idle", percent("idle")>>,
         <<"cpu_utilization", FSub(Float(Hundred), percent("idle"))>>,
         <<"network_bytes_sent",
           Max2(0, Get(n1, "bytes_sent", 0) - Get(n0, "bytes_sent", 0))>>}

\* A quotient n / d of Python, kept as the pair of its operands; a pair with
\* d = 0 stands for the ZeroDivisionError the division raises
TrueDivide(n, d) == <<n, d>>

\* The float 0.0 as a quotient
Zero == <<0, 1>>

\* A ratio guarded by its numerator instead of its divisor
DerivedRatioGuardsNumerator(pmc_data, numerator, divisor) ==
    IF Get(pmc_data, numerator, 0) > 0
    THEN TrueDivide(Get(pmc_data, numerator, 0), Get(pmc_data, divisor, 0))
    ELSE Zero

\* One of the three if/else blocks of calculate_derived_features
DerivedRatio(pmc_data, numerator, divisor) ==
    IF Get(pmc_data, divisor, 0) > 0
    THEN TrueDivide(Get(pmc_data, numerator, 0), Get(pmc_data, divisor, 0))
    ELSE Zero

\* VMFeatureCollector.calculate_derived_features
calculate_derived_features(pmc_data, os_data) ==
    {<<"instructions_per_cycle", DerivedRatio(pmc_data, "instructions", "cpu_cycles")>>,
     <<"cache_miss_ratio", DerivedRatio(pmc_data, "cache_misses", "cache_references")>>,
     <<"branch_miss_ratio", DerivedRatio(pmc_data, "branch_misses", "branches")>>,
     <<"cpu_efficiency",
       TrueDivide(FAdd(Get(os_data, "cpu_user_time", 0), Get(os_data, "cpu_system_time", 0)),
                  Float(Hundred))>>}

\* The performance-counter fields and the derived ratios of a VMFeaturePoint
\* (the ratios do not read the OS metrics)
PmcFeatures(pmc_data) ==
    LET derived_data == calculate_derived_features(pmc_data, EmptyDict) IN
    [cpu_cycles |-> Get(pmc_data, "cpu_cycles", 0),
     instructions |-> Get(pmc_data, "instructions", 0),
     cache_references |-> Get(pmc_data, "cache_references", 0),
     cache_misses |-> Get(pmc_data, "cache_misses", 0),
     branches |-> Get(pmc_data, "branches", 0),
     branch_misses |-> Get(pmc_data, "branch_misses", 0),
     page_faults |-> Get(pmc_data, "page_faults", 0),
     context_switches |-> Get(pmc_data, "context_switches", 0),
     instructions_per_cycle |-> Get(derived_data, "instructions_per_cycle", Zero),
     cache_miss_ratio |-> Get(derived_data, "cache_miss_ratio", Zero),
     branch_miss_ratio |-> Get(derived_data, "branch_miss_ratio", Zero)]

\* The locals of collect_feature_point before its first statement
NoCycle ==
    [t0 |-> None, proc_stat0 |-> EmptyDict, pmc_outcome |-> "none",
     pmc_data |-> EmptyDict, perf_start |-> None, t_after_pmc |-> None,
     t1 |-> None, proc_stat1 |-> EmptyDict, system_deltas |-> EmptyDict,
     point |-> None]

\* The locals of collect_vm_features
NoLoop == [start_time |-> 0, collection_count |-> 0, error_count |-> 0, wake_at |-> 0]

\* VMFeatureCollector.__init__ and main up to the call of collect_vm_features
CollectorInit ==
    /\ clock = 0
    /\ os_context_switches = 0
    /\ synchronized \in BOOLEAN
    /\ collection_interval \in 1..MaxInterval
    /\ available_pmcs \in BOOLEAN
    /\ duration \in 1..MaxDuration
    /\ feature_data = <<>>
    /\ collection_active = FALSE
    /\ shutdown_requested = FALSE
    /\ prev_proc_stat = EmptyDict
    /\ vc_pc = "main"
    /\ vc_loop = NoLoop
    /\ vc_cycle = NoCycle
    /\ signals = 0
    /\ perf_process = "none"
    /\ feature_file = None

\* A collector that is not run
CollectorIdle ==
    /\ clock = 0
    /\ os_context_switches = 0
    /\ synchronized = TRUE
    /\ collection_interval = 1
    /\ available_pmcs = FALSE
    /\ duration = 1
    /\ feature_data = <<>>
    /\ collection_active = FALSE
    /\ shutdown_requested = FALSE
    /\ prev_proc_stat = EmptyDict
    /\ vc_pc = "off"
    /\ vc_loop = NoLoop
    /\ vc_cycle = NoCycle
    /\ signals = 0
    /\ perf_process = "none"
    /\ feature_file = None

CollectorRunning == vc_pc \notin {"off", "done", "exit_1"}

\* The environment: a second passes, and the context-switch counter may grow
Tick ==
    /\ CollectorRunning
    /\ clock < MaxClock
    /\ clock' = clock + 1
    /\ \E d \in {0, 1} :
          /\ os_context_switches + d <= MaxCounter
          /\ os_context_switches' = os_context_switches + d
    /\ UNCHANGED <<synchronized, collection_interval, available_pmcs, duration,
                   feature_data, collection_active, shutdown_requested, prev_proc_stat,
                   vc_pc, vc_loop, vc_cycle>>
    /\ UNCHANGED <<signals, perf_process>>
    /\ UNCHANGED feature_file

\* A forced exit that leaves the perf child running
SignalHandlerLeavesPerf ==
    /\ CollectorRunning
    /\ signals' = signals + 1
    /\ IF shutdown_requested
       THEN /\ vc_pc' = "exit_1"
            /\ UNCHANGED <<shutdown_requested, collection_active, perf_process>>
       ELSE /\ shutdown_requested' = TRUE
            /\ collection_active' = FALSE
            /\ UNCHANGED <<vc_pc, perf_process>>
    /\ UNCHANGED <<clock, os_context_switches, synchronized, collection_interval,
                   available_pmcs, duration, feature_data, prev_proc_stat, vc_loop,
                   vc_cycle>>
    /\ UNCHANGED feature_file

\* VMFeatureCollector._signal_handler, run on SIGINT or SIGTERM: the first signal
\* asks the loop to stop; a later one raises SystemExit(1) in the main thread, and
\* subprocess.run kills its child when an exception passes through it
signal_handler ==
    /\ CollectorRunning
    /\ signals' = signals + 1
    /\ IF shutdown_requested
       THEN /\ vc_pc' = "exit_1"
            /\ perf_process' = IF perf_process = "running" THEN "killed" ELSE perf_process
            /\ UNCHANGED <<shutdown_requested, collection_active>>
       ELSE /\ shutdown_requested' = TRUE
            /\ collection_active' = FALSE
            /\ UNCHANGED <<vc_pc, perf_process>>
    /\ UNCHANGED <<clock, os_context_switches, synchronized, collection_interval,
                   available_pmcs, duration, feature_data, prev_proc_stat, vc_loop,
                   vc_cycle>>
    /\ UNCHANGED feature_file

\* collect_vm_features up to its loop
collect_vm_features ==
    /\ vc_pc = "main"
    /\ collection_active' = TRUE
    /\ vc_loop' = [start_time |-> clock, collection_count |-> 0, error_count |-> 0,
                   wake_at |-> 0]
    /\ vc_pc' = "loop"
    /\ UNCHANGED <<clock, os_context_switches, synchronized, collection_interval,
                   available_pmcs, duration, feature_data, shutdown_requested,
                   prev_proc_stat, vc_cycle>>
    /\ UNCHANGED <<signals, perf_process>>
    /\ UNCHANGED feature_file

\* The loop condition of collect_vm_features; when it holds, collect_feature_point
\* is called
LoopTest ==
    /\ vc_pc = "loop"
    /\ IF collection_active /\ (clock - vc_loop.start_time) < duration
       THEN /\ vc_pc' = "t0"
            /\ vc_cycle' = NoCycle
       ELSE /\ vc_pc' = "finish"
            /\ UNCHANGED vc_cycle
    /\ UNCHANGED <<clock, os_context_switches, synchronized, collection_interval,
                   available_pmcs, duration, feature_data, collection_active,
                   shutdown_requested, prev_proc_stat, vc_loop>>
    /\ UNCHANGED <<signals, perf_process>>
    /\ UNCHANGED feature_file

\* collect_feature_point, synchronized: the T0 snapshots
SnapshotT0 ==
    /\ vc_pc = "t0"
    /\ synchronized
    /\ vc_cycle' = [vc_cycle EXCEPT !.t0 = Some(clock), !.proc_stat0 = read_proc_stat]
    /\ vc_pc' = "measure"
    /\ UNCHANGED <<clock, os_context_switches, synchronized, collection_interval,
                   available_pmcs, duration, feature_data, collection_active,
                   shutdown_requested, prev_proc_stat, vc_loop>>
    /\ UNCHANGED <<signals, perf_process>>
    /\ UNCHANGED feature_file

\* collect_feature_point, not synchronized: the timestamp, the /proc/stat snapshot
\* and its deltas against the previous call's snapshot
LegacySnapshot ==
    /\ vc_pc = "t0"
    /\ ~synchronized
    /\ LET current_proc_stat == read_proc_stat IN
       /\ vc_cycle' = [vc_cycle EXCEPT
              !.t0 = Some(clock),
              !.system_deltas =
                  IF prev_proc_stat # EmptyDict
                  THEN compute_proc_stat_deltas(prev_proc_stat, current_proc_stat,
                                                collection_interval)
                  ELSE EmptyDict]
       /\ prev_proc_stat' = current_proc_stat
    /\ vc_pc' = "measure"
    /\ UNCHANGED <<clock, os_context_switches, synchronized, collection_interval,
                   available_pmcs, duration, feature_data, collection_active,
                   shutdown_requested, vc_loop>>
    /\ UNCHANGED <<signals, perf_process>>
    /\ UNCHANGED feature_file

\* Where collect_feature_point goes on after collect_pmc_metrics
AfterMeasure == IF synchronized THEN "after_pmc" ELSE "build"

\* collect_pmc_metrics with no counter available: returns {} at once
PmcUnavailable ==
    /\ vc_pc = "measure"
    /\ ~available_pmcs
    /\ vc_cycle' = [vc_cycle EXCEPT !.pmc_outcome = "unavailable", !.pmc_data = EmptyDict]
    /\ vc_pc' = AfterMeasure
    /\ UNCHANGED <<clock, os_context_switches, synchronized, collection_interval,
                   available_pmcs, duration, feature_data, collection_active,
                   shutdown_requested, prev_proc_stat, vc_loop>>
    /\ UNCHANGED <<signals, perf_process>>
    /\ UNCHANGED feature_file

\* collect_pmc_metrics starts perf stat ... sleep <collection_interval>
PerfStart ==
    /\ vc_pc = "measure"
    /\ available_pmcs
    /\ vc_cycle' = [vc_cycle EXCEPT !.perf_start = Some(clock)]
    /\ vc_pc' = "perf"
    /\ UNCHANGED <<clock, os_context_switches, synchronized, collection_interval,
                   available_pmcs, duration, feature_data, collection_active,
                   shutdown_requested, prev_proc_stat, vc_loop>>
    /\ perf_process' = "running"
    /\ UNCHANGED signals
    /\ UNCHANGED feature_file

\* The counts perf reports for cpu-cycles
PerfCounts == {0, 1}

\* perf exits with status 0 after its sleep, and its output is parsed
PerfSucceeds ==
    /\ vc_pc = "perf"
    /\ clock >= TheValue(vc_cycle.perf_start) + collection_interval
    /\ \E cycles \in PerfCounts :
          vc_cycle' = [vc_cycle EXCEPT !.pmc_outcome = "ok",
                                       !.pmc_data = {<<"cpu_cycles", cycles>>}]
    /\ vc_pc' = AfterMeasure
    /\ UNCHANGED <<clock, os_context_switches, synchronized, collection_interval,
                   available_pmcs, duration, feature_data, collection_active,
                   shutdown_requested, prev_proc_stat, vc_loop>>
    /\ perf_process' = "none"
    /\ UNCHANGED signals
    /\ UNCHANGED feature_file

\* A failed measurement that returns the counts of an earlier measurement
PerfFailsStaleCounts ==
    /\ vc_pc = "perf"
    /\ vc_cycle' = [vc_cycle EXCEPT !.pmc_outcome = "failed",
                                    !.pmc_data = {<<"cpu_cycles", 1>>}]
    /\ vc_pc' = AfterMeasure
    /\ UNCHANGED <<clock, os_context_switches, synchronized, collection_interval,
                   available_pmcs, duration, feature_data, collection_active,
                   shutdown_requested, prev_proc_stat, vc_loop>>
    /\ perf_process' = "none"
    /\ UNCHANGED signals
    /\ UNCHANGED feature_file

\* perf exits with another status, times out or cannot be run: {} is returned
PerfFails ==
    /\ vc_pc = "perf"
    /\ vc_cycle' = [vc_cycle EXCEPT !.pmc_outcome = "failed", !.pmc_data = EmptyDict]
    /\ vc_pc' = AfterMeasure
    /\ UNCHANGED <<clock, os_context_switches, synchronized, collection_interval,
                   available_pmcs, duration, feature_data, collection_active,
                   shutdown_requested, prev_proc_stat, vc_loop>>
    /\ perf_process' = "none"
    /\ UNCHANGED signals
    /\ UNCHANGED feature_file

\* The remainder wait dropped
RemainingSleepNone(elapsed) == 0

\* The time collect_feature_point sleeps after the perf measurement
RemainingSleep(elapsed) ==
    IF elapsed < collection_interval THEN collection_interval - elapsed ELSE 0

\* t_after_pmc = time.time() and the test of the elapsed time
ReadAfterPmc ==
    /\ vc_pc = "after_pmc"
    /\ vc_cycle' = [vc_cycle EXCEPT !.t_after_pmc = Some(clock)]
    /\ vc_pc' = IF RemainingSleep(clock - TheValue(vc_cycle.t0)) > 0 THEN "wait" ELSE "t1"
    /\ UNCHANGED <<clock, os_context_switches, synchronized, collection_interval,
                   available_pmcs, duration, feature_data, collection_active,
                   shutdown_requested, prev_proc_stat, vc_loop>>
    /\ UNCHANGED <<signals, perf_process>>
    /\ UNCHANGED feature_file

\* time.sleep(remaining_sleep) returns
WaitRemainder ==
    /\ vc_pc = "wait"
    /\ clock >= TheValue(vc_cycle.t_after_pmc)
                  + RemainingSleep(TheValue(vc_cycle.t_after_pmc) - TheValue(vc_cycle.t0))
    /\ vc_pc' = "t1"
    /\ UNCHANGED <<clock, os_context_switches, synchronized, collection_interval,
                   available_pmcs, duration, feature_data, collection_active,
                   shutdown_requested, prev_proc_stat, vc_loop, vc_cycle>>
    /\ UNCHANGED <<signals, perf_process>>
    /\ UNCHANGED feature_file

\* The synchronized point with its deltas taken against the previous cycle's
\* snapshot instead of this cycle's T0 snapshot
SyncPointFromPrevious(cycle, t1, proc_stat1) ==
    LET time_delta == IF t1 - TheValue(cycle.t0) > 0 THEN t1 - TheValue(cycle.t0)
                      ELSE MinTimeDelta
        system_deltas == compute_proc_stat_deltas(prev_proc_stat, proc_stat1, time_delta)
    IN  [timestamp |-> t1,
         sys_context_switches |-> Get(system_deltas, "sys_context_switches", 0),
         collection_interval |-> collection_interval,
         time_delta_seconds |-> time_delta] @@ PmcFeatures(cycle.pmc_data)

\* The VMFeaturePoint of a synchronized cycle
SyncPoint(cycle, t1, proc_stat1) ==
    LET time_delta == IF t1 - TheValue(cycle.t0) > 0 THEN t1 - TheValue(cycle.t0)
                      ELSE MinTimeDelta
        system_deltas == compute_proc_stat_deltas(cycle.proc_stat0, proc_stat1, time_delta)
    IN  [timestamp |-> t1,
         sys_context_switches |-> Get(system_deltas, "sys_context_switches", 0),
         collection_interval |-> collection_interval,
         time_delta_seconds |-> time_delta] @@ PmcFeatures(cycle.pmc_data)

\* The T1 snapshots, the deltas and the point collect_feature_point returns
SnapshotT1 ==
    /\ vc_pc = "t1"
    /\ LET t1 == clock
           proc_stat1 == read_proc_stat
       IN  /\ vc_cycle' = [vc_cycle EXCEPT
                  !.t1 = Some(t1), !.proc_stat1 = proc_stat1,
                  !.point = Some(SyncPoint(vc_cycle, t1, proc_stat1))]
           /\ prev_proc_stat' = proc_stat1
    /\ vc_pc' = "return_point"
    /\ UNCHANGED <<clock, os_context_switches, synchronized, collection_interval,
                   available_pmcs, duration, feature_data, collection_active,
                   shutdown_requested, vc_loop>>
    /\ UNCHANGED <<signals, perf_process>>
    /\ UNCHANGED feature_file

\* The VMFeaturePoint of a cycle that is not synchronized: time_delta_seconds is
\* not passed and keeps the dataclass default
LegacyPoint(cycle) ==
    [timestamp |-> TheValue(cycle.t0),
     sys_context_switches |-> Get(cycle.system_deltas, "sys_context_switches", 0),
     collection_interval |-> collection_interval,
     time_delta_seconds |-> 0] @@ PmcFeatures(cycle.pmc_data)

\* collect_feature_point, not synchronized: the point it returns
LegacyBuild ==
    /\ vc_pc = "build"
    /\ vc_cycle' = [vc_cycle EXCEPT !.point = Some(LegacyPoint(vc_cycle))]
    /\ vc_pc' = "return_point"
    /\ UNCHANGED <<clock, os_context_switches, synchronized, collection_interval,
                   available_pmcs, duration, feature_data, collection_active,
                   shutdown_requested, prev_proc_stat, vc_loop>>
    /\ UNCHANGED <<signals, perf_process>>
    /\ UNCHANGED feature_file

\* A failed cycle ending the run
CycleFailsAborts ==
    /\ vc_pc \in {"measure", "after_pmc", "t1", "build"}
    /\ vc_cycle' = [vc_cycle EXCEPT !.point = None]
    /\ vc_loop' = [vc_loop EXCEPT !.error_count = @ + 1]
    /\ vc_pc' = "finish"
    /\ UNCHANGED <<clock, os_context_switches, synchronized, collection_interval,
                   available_pmcs, duration, feature_data, collection_active,
                   shutdown_requested, prev_proc_stat>>
    /\ UNCHANGED <<signals, perf_process>>
    /\ UNCHANGED feature_file

\* An exception inside collect_feature_point: it is logged, None is returned and
\* collect_vm_features counts an error
CycleFails ==
    /\ vc_pc \in {"measure", "after_pmc", "t1", "build"}
    /\ vc_cycle' = [vc_cycle EXCEPT !.point = None]
    /\ vc_loop' = [vc_loop EXCEPT !.error_count = @ + 1]
    /\ vc_pc' = "schedule"
    /\ UNCHANGED <<clock, os_context_switches, synchronized, collection_interval,
                   available_pmcs, duration, feature_data, collection_active,
                   shutdown_requested, prev_proc_stat>>
    /\ UNCHANGED <<signals, perf_process>>
    /\ UNCHANGED feature_file

\* collect_vm_features appends the returned point
Emit ==
    /\ vc_pc = "return_point"
    /\ feature_data' = Append(feature_data, TheValue(vc_cycle.point))
    /\ vc_loop' = [vc_loop EXCEPT !.collection_count = @ + 1]
    /\ vc_pc' = "schedule"
    /\ UNCHANGED <<clock, os_context_switches, synchronized, collection_interval,
                   available_pmcs, duration, collection_active, shutdown_requested,
                   prev_proc_stat, vc_cycle>>
    /\ UNCHANGED <<signals, perf_process>>
    /\ UNCHANGED feature_file

\* An exception in the loop body of collect_vm_features, raised by the append: it is
\* logged and counted, and the loop sleeps one interval
LoopBodyRaises ==
    /\ vc_pc = "return_point"
    /\ vc_loop' = [vc_loop EXCEPT !.error_count = @ + 1,
                                  !.wake_at = clock + collection_interval]
    /\ vc_pc' = "sleep_next"
    /\ UNCHANGED <<clock, os_context_switches, synchronized, collection_interval,
                   available_pmcs, duration, feature_data, collection_active,
                   shutdown_requested, prev_proc_stat, vc_cycle>>
    /\ UNCHANGED <<signals, perf_process>>
    /\ UNCHANGED feature_file

\* The sleep until the next collection interval
Schedule ==
    /\ vc_pc = "schedule"
    /\ LET next_collection == vc_loop.start_time
                                + (vc_loop.collection_count + vc_loop.error_count + 1)
                                    * collection_interval
           sleep_time == next_collection - clock
       IN  IF sleep_time > 0
           THEN /\ vc_loop' = [vc_loop EXCEPT !.wake_at = clock + sleep_time]
                /\ vc_pc' = "sleep_next"
           ELSE /\ vc_pc' = "loop"
                /\ UNCHANGED vc_loop
    /\ UNCHANGED <<clock, os_context_switches, synchronized, collection_interval,
                   available_pmcs, duration, feature_data, collection_active,
                   shutdown_requested, prev_proc_stat, vc_cycle>>
    /\ UNCHANGED <<signals, perf_process>>
    /\ UNCHANGED feature_file

\* time.sleep(sleep_time) returns
SleepNext ==
    /\ vc_pc = "sleep_next"
    /\ clock >= vc_loop.wake_at
    /\ vc_pc' = "loop"
    /\ UNCHANGED <<clock, os_context_switches, synchronized, collection_interval,
                   available_pmcs, duration, feature_data, collection_active,
                   shutdown_requested, prev_proc_stat, vc_loop, vc_cycle>>
    /\ UNCHANGED <<signals, perf_process>>
    /\ UNCHANGED feature_file

\* The output path collect_vm_features and collect_power_data are called with:
\* main passes args.output, which has a default
OutputFileGiven == TRUE

\* collect_vm_features after its loop, up to the open(output_path, 'w') of
\* save_feature_data, which creates the file or empties it (a write that fails
\* is logged by save_feature_data and is left out)
Finish ==
    /\ vc_pc = "finish"
    /\ collection_active' = FALSE
    /\ IF OutputFileGiven /\ feature_data # <<>>
       THEN /\ feature_file' = Some(<<>>)
            /\ vc_pc' = "saving"
       ELSE /\ vc_pc' = "done"
            /\ UNCHANGED feature_file
    /\ UNCHANGED <<clock, os_context_switches, synchronized, collection_interval,
                   available_pmcs, duration, feature_data, shutdown_requested,
                   prev_proc_stat, vc_loop, vc_cycle>>
    /\ UNCHANGED <<signals, perf_process>>

\* save_feature_data: json.dump writes every point of feature_data and the file is
\* closed; collect_vm_features returns
SaveFeatureData ==
    /\ vc_pc = "saving"
    /\ feature_file' = Some(feature_data)
    /\ vc_pc' = "done"
    /\ UNCHANGED <<clock, os_context_switches, synchronized, collection_interval,
                   available_pmcs, duration, feature_data, collection_active,
                   shutdown_requested, prev_proc_stat, vc_loop, vc_cycle>>
    /\ UNCHANGED <<signals, perf_process>>

\* ------------------------------------------------------------------ power collector
\* The seconds collect_power_metrics_with_timestamp sleeps after a failed attempt
BackoffSeconds == 1

\* The vm_info a well-formed kepler_vm_cpu_watts line is parsed into
Names == {"", "vm1"}
Ids == {"", "id1"}
Zones == {"core", "package", "dram"}
VmInfos ==
    {[vm_name |-> n, vm_id |-> i, zone |-> z, watts |-> IF n = "" THEN 1 ELSE 2] :
        n \in Names, i \in Ids, z \in Zones}

\* The scrapes of up to MaxReadings lines
Scrapes == SeqsUpTo(VmInfos, MaxReadings)

\* A scrape of one machine with a core and a package reading
SteadyScrape ==
    <<[vm_name |-> "vm1", vm_id |-> "id1", zone |-> "core", watts |-> 1],
      [vm_name |-> "vm1", vm_id |-> "id1", zone |-> "package", watts |-> 2]>>

\* The name sets and the patterns a collector is built with; a pattern is the set
\* of the strings in which pattern.search finds a match
\* The response texts Kepler can answer a request with
KeplerResponses == IF kepler_scrapes = "any" THEN Scrapes ELSE {SteadyScrape}

NameSets == {{"vm1"}, {"id1"}}
Patterns == {{"vm1"}, {"id1"}, {"", "vm1", "id1"}}

\* A grouping that puts the readings of other zones with the core readings
ParseOtherZonesAsCore(kepler_response) ==
    [core |-> SelectSeq(kepler_response, LAMBDA vm_info : vm_info.zone # "package"),
     package |-> SelectSeq(kepler_response, LAMBDA vm_info : vm_info.zone = "package")]

\* BaremetalPowerCollector._parse_vm_metrics on well-formed lines: the readings
\* grouped by zone, other zones dropped
parse_vm_metrics(kepler_response) ==
    [core |-> SelectSeq(kepler_response, LAMBDA vm_info : vm_info.zone = "core"),
     package |-> SelectSeq(kepler_response, LAMBDA vm_info : vm_info.zone = "package")]

\* A filter that asks for the name set and the pattern together
FilterVmsBoth(vm_list) ==
    IF target_vms = None /\ vm_pattern = None THEN vm_list
    ELSE SelectSeq(vm_list, LAMBDA vm :
            /\ target_vms # None =>
                  (vm.vm_name \in TheValue(target_vms) \/ vm.vm_id \in TheValue(target_vms))
            /\ vm_pattern # None =>
                  \E field \in {vm.vm_name, vm.vm_id} :
                      field # "" /\ field \in TheValue(vm_pattern))

\* BaremetalPowerCollector._filter_vms
filter_vms(vm_list) ==
    IF target_vms = None /\ vm_pattern = None THEN vm_list
    ELSE SelectSeq(vm_list, LAMBDA vm :
            \/ /\ target_vms # None
               /\ (vm.vm_name \in TheValue(target_vms) \/ vm.vm_id \in TheValue(target_vms))
            \/ /\ vm_pattern # None
               /\ \E field \in {vm.vm_name, vm.vm_id} :
                     field # "" /\ field \in TheValue(vm_pattern))

\* sum(vm['watts'] for vm in vm_list)
RECURSIVE WattsSum(_)
WattsSum(vm_list) ==
    IF vm_list = <<>> THEN 0 ELSE Head(vm_list).watts + WattsSum(Tail(vm_list))

\* all_vms: the kept readings, core first
AllVms(filtered_core, filtered_package) ==
    [i \in 1..Len(filtered_core) |-> [filtered_core[i] EXCEPT !.zone = "core"]]
       \o [i \in 1..Len(filtered_package) |-> [filtered_package[i] EXCEPT !.zone = "package"]]

\* A PowerDataPoint stamped with the time the response arrived
PowerDataPointAtArrival(target_timestamp, filtered_core, filtered_package) ==
    [timestamp |-> bm_clock - TheValue(collection_start_time),
     timestamp_absolute |-> bm_clock,
     total_cpu_watts_core |-> WattsSum(filtered_core),
     total_cpu_watts_package |-> WattsSum(filtered_package),
     vm_count |-> Len(filtered_core),
     vms |-> AllVms(filtered_core, filtered_package),
     collection_interval |-> bm_collection_interval]

\* The PowerDataPoint collect_power_metrics_with_timestamp builds
PowerDataPoint(target_timestamp, filtered_core, filtered_package) ==
    [timestamp |-> target_timestamp - TheValue(collection_start_time),
     timestamp_absolute |-> target_timestamp,
     total_cpu_watts_core |-> WattsSum(filtered_core),
     total_cpu_watts_package |-> WattsSum(filtered_package),
     vm_count |-> Len(filtered_core),
     vms |-> AllVms(filtered_core, filtered_package),
     collection_interval |-> bm_collection_interval]

\* The locals of collect_power_data before its first statement
NoPowerLoop ==
    [start_time |-> 0, collection_count |-> 0, error_count |-> 0, target_time |-> 0,
     wake_at |-> 0, iterations |-> 0, behind |-> 0]

\* The locals of collect_power_metrics_with_timestamp before its first statement,
\* with the numbers of requests made, of requests failed and of backoff sleeps
NoFetch ==
    [target_timestamp |-> 0, attempt |-> 0, gets |-> 0, failures |-> 0, backoffs |-> 0,
     response |-> <<>>, filtered_core |-> <<>>, filtered_package |-> <<>>,
     outcome |-> "none", data_point |-> None]

\* BaremetalPowerCollector.__init__
PowerCollectorInit ==
    /\ bm_clock = 0
    /\ bm_collection_interval \in 1..MaxBmInterval
    /\ max_retries \in 1..MaxRetries
    /\ sync_start_time \in {None} \cup {Some(t) : t \in 0..MaxSyncStart}
    /\ bm_duration \in 1..MaxBmDuration
    /\ power_data = <<>>
    /\ bm_collection_active = FALSE
    /\ bm_shutdown_requested = FALSE
    /\ collection_start_time = None
    /\ bp_pc = "main"
    /\ bp_loop = NoPowerLoop
    /\ bp_fetch = NoFetch
    /\ power_file = None

\* A power collector that is not run
PowerCollectorIdle ==
    /\ bm_clock = 0
    /\ kepler_scrapes = "steady"
    /\ bm_collection_interval = 1
    /\ max_retries = 1
    /\ target_vms = None
    /\ vm_pattern = None
    /\ sync_start_time = None
    /\ bm_duration = 1
    /\ power_data = <<>>
    /\ bm_collection_active = FALSE
    /\ bm_shutdown_requested = FALSE
    /\ collection_start_time = None
    /\ bp_pc = "off"
    /\ bp_loop = NoPowerLoop
    /\ bp_fetch = NoFetch
    /\ power_file = None

PowerCollectorRunning == bp_pc \notin {"off", "done", "exit_1", "returned"}

\* The environment: a second passes
PowerTick ==
    /\ PowerCollectorRunning
    /\ bm_clock < MaxBmClock
    /\ bm_clock' = bm_clock + 1
    /\ UNCHANGED <<kepler_scrapes, bm_collection_interval, max_retries, target_vms,
                   vm_pattern, sync_start_time, bm_duration, power_data,
                   bm_collection_active, bm_shutdown_requested, collection_start_time,
                   bp_pc, bp_loop, bp_fetch>>
    /\ UNCHANGED power_file

\* BaremetalPowerCollector._signal_handler
power_signal_handler ==
    /\ PowerCollectorRunning
    /\ IF bm_shutdown_requested
       THEN /\ bp_pc' = "exit_1"
            /\ UNCHANGED <<bm_shutdown_requested, bm_collection_active>>
       ELSE /\ bm_shutdown_requested' = TRUE
            /\ bm_collection_active' = FALSE
            /\ UNCHANGED bp_pc
    /\ UNCHANGED <<bm_clock, kepler_scrapes, bm_collection_interval, max_retries,
                   target_vms, vm_pattern, sync_start_time, bm_duration, power_data,
                   collection_start_time, bp_loop, bp_fetch>>
    /\ UNCHANGED power_file

\* collect_power_data up to its loop, with _wait_for_sync_start up to its sleep
collect_power_data ==
    /\ bp_pc = "main"
    /\ bm_collection_active' = TRUE
    /\ IF sync_start_time = None
       THEN /\ bp_loop' = [NoPowerLoop EXCEPT !.start_time = bm_clock]
            /\ collection_start_time' = Some(bm_clock)
            /\ bp_pc' = "loop"
       ELSE IF bm_clock < TheValue(sync_start_time)
       THEN /\ bp_loop' = [NoPowerLoop EXCEPT !.start_time = TheValue(sync_start_time),
                                              !.wake_at = TheValue(sync_start_time)]
            /\ UNCHANGED collection_start_time
            /\ bp_pc' = "sync_wait"
       ELSE /\ bp_loop' = [NoPowerLoop EXCEPT !.start_time = TheValue(sync_start_time)]
            /\ collection_start_time' = sync_start_time
            /\ bp_pc' = "loop"
    /\ UNCHANGED <<bm_clock, kepler_scrapes, bm_collection_interval, max_retries,
                   target_vms, vm_pattern, sync_start_time, bm_duration, power_data,
                   bm_shutdown_requested, bp_fetch>>
    /\ UNCHANGED power_file

\* _wait_for_sync_start after its sleep
SyncWait ==
    /\ bp_pc = "sync_wait"
    /\ bm_clock >= bp_loop.wake_at
    /\ collection_start_time' = sync_start_time
    /\ bp_pc' = "loop"
    /\ UNCHANGED <<bm_clock, kepler_scrapes, bm_collection_interval, max_retries,
                   target_vms, vm_pattern, sync_start_time, bm_duration, power_data,
                   bm_collection_active, bm_shutdown_requested, bp_loop, bp_fetch>>
    /\ UNCHANGED power_file

\* A target time one interval after the present
TargetTimeFromNow(start_time, collection_count) ==
    IF collection_count = 0 THEN start_time ELSE bm_clock + bm_collection_interval

\* The target time of the sample that follows collection_count samples
TargetTime(start_time, collection_count) ==
    start_time + (collection_count * bm_collection_interval)

\* The loop condition of collect_power_data and, when it holds, the target time of
\* the iteration and the decision to sleep until it
PowerLoopTest ==
    /\ bp_pc = "loop"
    /\ IF bm_collection_active /\ (bm_clock - bp_loop.start_time) < bm_duration
       THEN LET target_time == TargetTime(bp_loop.start_time, bp_loop.collection_count)
                sleep_duration == target_time - bm_clock
            IN  /\ bp_loop' = [bp_loop EXCEPT
                       !.target_time = target_time,
                       !.iterations = @ + 1,
                       !.behind = IF sleep_duration < 0 THEN @ + 1 ELSE @]
                /\ bp_pc' = IF sleep_duration > 0 THEN "sleep_target" ELSE "fetch"
       ELSE /\ bp_pc' = "finish"
            /\ UNCHANGED bp_loop
    /\ UNCHANGED <<bm_clock, kepler_scrapes, bm_collection_interval, max_retries,
                   target_vms, vm_pattern, sync_start_time, bm_duration, power_data,
                   bm_collection_active, bm_shutdown_requested, collection_start_time,
                   bp_fetch>>
    /\ UNCHANGED power_file

\* time.sleep(sleep_duration) returns
SleepTarget ==
    /\ bp_pc = "sleep_target"
    /\ bm_clock >= bp_loop.target_time
    /\ bp_pc' = "fetch"
    /\ UNCHANGED <<bm_clock, kepler_scrapes, bm_collection_interval, max_retries,
                   target_vms, vm_pattern, sync_start_time, bm_duration, power_data,
                   bm_collection_active, bm_shutdown_requested, collection_start_time,
                   bp_loop, bp_fetch>>
    /\ UNCHANGED power_file

\* The call of collect_power_metrics_with_timestamp and its first attempt
FetchEnter ==
    /\ bp_pc = "fetch"
    /\ bp_fetch' = [NoFetch EXCEPT !.target_timestamp = bp_loop.target_time]
    /\ bp_pc' = "get"
    /\ UNCHANGED <<bm_clock, kepler_scrapes, bm_collection_interval, max_retries,
                   target_vms, vm_pattern, sync_start_time, bm_duration, power_data,
                   bm_collection_active, bm_shutdown_requested, collection_start_time,
                   bp_loop>>
    /\ UNCHANGED power_file

\* session.get answers: the scrape is parsed, filtered and summed, and the data
\* point is returned
GetSucceeds ==
    /\ bp_pc = "get"
    /\ \E response \in KeplerResponses :
          LET metrics == parse_vm_metrics(response)
              filtered_core == filter_vms(metrics.core)
              filtered_package == filter_vms(metrics.package)
          IN  bp_fetch' = [bp_fetch EXCEPT
                  !.gets = @ + 1,
                  !.response = response,
                  !.filtered_core = filtered_core,
                  !.filtered_package = filtered_package,
                  !.outcome = "ok",
                  !.data_point = Some(PowerDataPoint(bp_fetch.target_timestamp,
                                                     filtered_core, filtered_package))]
    /\ bp_pc' = "fetched"
    /\ UNCHANGED <<bm_clock, kepler_scrapes, bm_collection_interval, max_retries,
                   target_vms, vm_pattern, sync_start_time, bm_duration, power_data,
                   bm_collection_active, bm_shutdown_requested, collection_start_time,
                   bp_loop>>
    /\ UNCHANGED power_file

\* A failed request that is followed by one more attempt than max_retries allows
GetFailsOneMore ==
    /\ bp_pc = "get"
    /\ IF bp_fetch.attempt < max_retries
       THEN /\ bp_fetch' = [bp_fetch EXCEPT !.gets = @ + 1, !.failures = @ + 1,
                                            !.backoffs = @ + 1]
            /\ bp_loop' = [bp_loop EXCEPT !.wake_at = bm_clock + BackoffSeconds]
            /\ bp_pc' = "backoff"
       ELSE /\ bp_fetch' = [bp_fetch EXCEPT !.gets = @ + 1, !.failures = @ + 1,
                                            !.outcome = "exhausted",
                                            !.data_point = None]
            /\ bp_pc' = "fetched"
            /\ UNCHANGED bp_loop
    /\ UNCHANGED <<bm_clock, kepler_scrapes, bm_collection_interval, max_retries,
                   target_vms, vm_pattern, sync_start_time, bm_duration, power_data,
                   bm_collection_active, bm_shutdown_requested, collection_start_time>>
    /\ UNCHANGED power_file

\* session.get or raise_for_status raises a RequestException: a backoff sleep and
\* another attempt, or None after the last attempt
GetFails ==
    /\ bp_pc = "get"
    /\ IF bp_fetch.attempt < max_retries - 1
       THEN /\ bp_fetch' = [bp_fetch EXCEPT !.gets = @ + 1, !.failures = @ + 1,
                                            !.backoffs = @ + 1]
            /\ bp_loop' = [bp_loop EXCEPT !.wake_at = bm_clock + BackoffSeconds]
            /\ bp_pc' = "backoff"
       ELSE /\ bp_fetch' = [bp_fetch EXCEPT !.gets = @ + 1, !.failures = @ + 1,
                                            !.outcome = "exhausted",
                                            !.data_point = None]
            /\ bp_pc' = "fetched"
            /\ UNCHANGED bp_loop
    /\ UNCHANGED <<bm_clock, kepler_scrapes, bm_collection_interval, max_retries,
                   target_vms, vm_pattern, sync_start_time, bm_duration, power_data,
                   bm_collection_active, bm_shutdown_requested, collection_start_time>>
    /\ UNCHANGED power_file

\* Another exception in the attempt: None is returned at once
GetUnexpected ==
    /\ bp_pc = "get"
    /\ bp_fetch' = [bp_fetch EXCEPT !.gets = @ + 1, !.outcome = "unexpected",
                                    !.data_point = None]
    /\ bp_pc' = "fetched"
    /\ UNCHANGED <<bm_clock, kepler_scrapes, bm_collection_interval, max_retries,
                   target_vms, vm_pattern, sync_start_time, bm_duration, power_data,
                   bm_collection_active, bm_shutdown_requested, collection_start_time,
                   bp_loop>>
    /\ UNCHANGED power_file

\* time.sleep(1) returns and the next attempt starts
Backoff ==
    /\ bp_pc = "backoff"
    /\ bm_clock >= bp_loop.wake_at
    /\ bp_fetch' = [bp_fetch EXCEPT !.attempt = @ + 1]
    /\ bp_pc' = "get"
    /\ UNCHANGED <<bm_clock, kepler_scrapes, bm_collection_interval, max_retries,
                   target_vms, vm_pattern, sync_start_time, bm_duration, power_data,
                   bm_collection_active, bm_shutdown_requested, collection_start_time,
                   bp_loop>>
    /\ UNCHANGED power_file

\* collect_power_data appends the data point
PowerAppend ==
    /\ bp_pc = "fetched"
    /\ bp_fetch.data_point # None
    /\ power_data' = Append(power_data, TheValue(bp_fetch.data_point))
    /\ bp_loop' = [bp_loop EXCEPT !.collection_count = @ + 1]
    /\ bp_pc' = "loop"
    /\ UNCHANGED <<bm_clock, kepler_scrapes, bm_collection_interval, max_retries,
                   target_vms, vm_pattern, sync_start_time, bm_duration,
                   bm_collection_active, bm_shutdown_requested, collection_start_time,
                   bp_fetch>>
    /\ UNCHANGED power_file

\* A missing sample that leaves collection_count alone
PowerMissingNoAdvance ==
    /\ bp_pc = "fetched"
    /\ bp_fetch.data_point = None
    /\ bp_loop' = [bp_loop EXCEPT !.error_count = @ + 2,
                                  !.wake_at = bm_clock + bm_collection_interval]
    /\ bp_pc' = "sleep_error"
    /\ UNCHANGED <<bm_clock, kepler_scrapes, bm_collection_interval, max_retries,
                   target_vms, vm_pattern, sync_start_time, bm_duration, power_data,
                   bm_collection_active, bm_shutdown_requested, collection_start_time,
                   bp_fetch>>
    /\ UNCHANGED power_file

\* collect_power_data got None: the error and the sample are counted, then the
\* debug message reads sleep_time, a name that is not defined, and the NameError
\* is handled by the loop: one more error is counted and the loop sleeps
PowerMissing ==
    /\ bp_pc = "fetched"
    /\ bp_fetch.data_point = None
    /\ bp_loop' = [bp_loop EXCEPT !.error_count = @ + 2,
                                  !.collection_count = @ + 1,
                                  !.wake_at = bm_clock + bm_collection_interval]
    /\ bp_pc' = "sleep_error"
    /\ UNCHANGED <<bm_clock, kepler_scrapes, bm_collection_interval, max_retries,
                   target_vms, vm_pattern, sync_start_time, bm_duration, power_data,
                   bm_collection_active, bm_shutdown_requested, collection_start_time,
                   bp_fetch>>
    /\ UNCHANGED power_file

\* time.sleep(self.collection_interval) of the handler returns
SleepError ==
    /\ bp_pc = "sleep_error"
    /\ bm_clock >= bp_loop.wake_at
    /\ bp_pc' = "loop"
    /\ UNCHANGED <<bm_clock, kepler_scrapes, bm_collection_interval, max_retries,
                   target_vms, vm_pattern, sync_start_time, bm_duration, power_data,
                   bm_collection_active, bm_shutdown_requested, collection_start_time,
                   bp_loop, bp_fetch>>
    /\ UNCHANGED power_file

\* collect_power_data after its loop, up to the first open(path, 'w') of
\* save_power_data (a write that fails is logged and is left out)
PowerFinish ==
    /\ bp_pc = "finish"
    /\ bm_collection_active' = FALSE
    /\ IF OutputFileGiven /\ power_data # <<>>
       THEN /\ power_file' = Some(<<>>)
            /\ bp_pc' = "saving"
       ELSE /\ bp_pc' = "done"
            /\ UNCHANGED power_file
    /\ UNCHANGED <<bm_clock, kepler_scrapes, bm_collection_interval, max_retries,
                   target_vms, vm_pattern, sync_start_time, bm_duration, power_data,
                   bm_shutdown_requested, collection_start_time, bp_loop, bp_fetch>>

\* save_power_data: every point of power_data is written and the file is closed;
\* collect_power_data returns
SavePowerData ==
    /\ bp_pc = "saving"
    /\ power_file' = Some(power_data)
    /\ bp_pc' = "done"
    /\ UNCHANGED <<bm_clock, kepler_scrapes, bm_collection_interval, max_retries,
                   target_vms, vm_pattern, sync_start_time, bm_duration, power_data,
                   bm_collection_active, bm_shutdown_requested, collection_start_time,
                   bp_loop, bp_fetch>>

\* collect_power_metrics_with_timestamp returns to a caller that keeps the result
FetchReturn ==
    /\ bp_pc = "fetched"
    /\ bp_pc' = "returned"
    /\ UNCHANGED <<bm_clock, kepler_scrapes, bm_collection_interval, max_retries,
                   target_vms, vm_pattern, sync_start_time, bm_duration, power_data,
                   bm_collection_active, bm_shutdown_requested, collection_start_time,
                   bp_loop, bp_fetch>>
    /\ UNCHANGED power_file

\* main's connectivity test: one attempt of collect_power_metrics succeeds, the
\* first measurement sets collection_start_time, and main goes on
ProbeSucceeds ==
    /\ bp_pc = "probe"
    /\ \E response \in KeplerResponses :
          bp_fetch' = [NoFetch EXCEPT !.gets = bp_fetch.gets + 1, !.outcome = "ok"]
    /\ collection_start_time' = IF collection_start_time = None THEN Some(bm_clock)
                                ELSE collection_start_time
    /\ bp_pc' = "main"
    /\ UNCHANGED <<bm_clock, kepler_scrapes, bm_collection_interval, max_retries,
                   target_vms, vm_pattern, sync_start_time, bm_duration, power_data,
                   bm_collection_active, bm_shutdown_requested, bp_loop>>
    /\ UNCHANGED power_file

\* A connectivity test that goes on to the collection when it returned None
ProbeFailsGoesOn ==
    /\ bp_pc = "probe"
    /\ IF bp_fetch.attempt < max_retries - 1
       THEN /\ bp_fetch' = [bp_fetch EXCEPT !.gets = @ + 1, !.failures = @ + 1,
                                            !.backoffs = @ + 1]
            /\ bp_loop' = [bp_loop EXCEPT !.wake_at = bm_clock + BackoffSeconds]
            /\ bp_pc' = "probe_backoff"
       ELSE /\ bp_fetch' = [bp_fetch EXCEPT !.gets = @ + 1, !.failures = @ + 1,
                                            !.outcome = "exhausted"]
            /\ bp_pc' = "main"
            /\ UNCHANGED bp_loop
    /\ UNCHANGED <<bm_clock, kepler_scrapes, bm_collection_interval, max_retries,
                   target_vms, vm_pattern, sync_start_time, bm_duration, power_data,
                   bm_collection_active, bm_shutdown_requested, collection_start_time>>
    /\ UNCHANGED power_file

\* The request of the connectivity test fails: collect_power_metrics sleeps and
\* tries again, or returns None after the last attempt and main calls sys.exit(1)
ProbeFails ==
    /\ bp_pc = "probe"
    /\ IF bp_fetch.attempt < max_retries - 1
       THEN /\ bp_fetch' = [bp_fetch EXCEPT !.gets = @ + 1, !.failures = @ + 1,
                                            !.backoffs = @ + 1]
            /\ bp_loop' = [bp_loop EXCEPT !.wake_at = bm_clock + BackoffSeconds]
            /\ bp_pc' = "probe_backoff"
       ELSE /\ bp_fetch' = [bp_fetch EXCEPT !.gets = @ + 1, !.failures = @ + 1,
                                            !.outcome = "exhausted"]
            /\ bp_pc' = "exit_1"
            /\ UNCHANGED bp_loop
    /\ UNCHANGED <<bm_clock, kepler_scrapes, bm_collection_interval, max_retries,
                   target_vms, vm_pattern, sync_start_time, bm_duration, power_data,
                   bm_collection_active, bm_shutdown_requested, collection_start_time>>
    /\ UNCHANGED power_file

\* Another exception in the connectivity test: None is returned at once and main
\* calls sys.exit(1)
ProbeUnexpected ==
    /\ bp_pc = "probe"
    /\ bp_fetch' = [bp_fetch EXCEPT !.gets = @ + 1, !.outcome = "unexpected"]
    /\ bp_pc' = "exit_1"
    /\ UNCHANGED <<bm_clock, kepler_scrapes, bm_collection_interval, max_retries,
                   target_vms, vm_pattern, sync_start_time, bm_duration, power_data,
                   bm_collection_active, bm_shutdown_requested, collection_start_time,
                   bp_loop>>
    /\ UNCHANGED power_file

\* time.sleep(1) of the connectivity test returns and its next attempt starts
ProbeBackoff ==
    /\ bp_pc = "probe_backoff"
    /\ bm_clock >= bp_loop.wake_at
    /\ bp_fetch' = [bp_fetch EXCEPT !.attempt = @ + 1]
    /\ bp_pc' = "probe"
    /\ UNCHANGED <<bm_clock, kepler_scrapes, bm_collection_interval, max_retries,
                   target_vms, vm_pattern, sync_start_time, bm_duration, power_data,
                   bm_collection_active, bm_shutdown_requested, collection_start_time,
                   bp_loop>>
    /\ UNCHANGED power_file

\* ------------------------------------------------------------------ scenario
\* The default time_tolerance, 0.2 s, in units of 0.05 s
DefaultTimeTolerance == 4

\* Feature timestamps 0.0, 1.0, 2.0, 10.0 s in units of 0.05 s
ScenarioFeatureTimes == <<0, 20, 40, 200>>

\* Power row timestamps 0.05, 0.95, 2.5 s in units of 0.05 s
ScenarioLabelTimes == <<1, 19, 50>>

ScenarioFeatureFiles ==
    {[i \in 1..4 |-> [timestamp |-> ScenarioFeatureTimes[f[i]]]] : f \in Permutations(1..4)}

ScenarioPowerFiles ==
    {[i \in 1..3 |-> [timestamp |-> ScenarioLabelTimes[i],
                      total_cpu_watts_core |-> c[i],
                      total_cpu_watts_package |-> q[i]]] :
         c \in [1..3 -> 0..MaxWatts], q \in [1..3 -> 0..MaxWatts]}

\* ------------------------------------------------------------------ scrape text
\* The text of a scrape, for the parsing of its lines.  A line is a sequence of
\* tokens: the characters { } , = " and the space are tokens of their own, and a
\* run of other characters is one token, which the parser never cuts.

\* str.find(token): the 0-based position of the first occurrence, or -1
Find(s, token) ==
    IF \E i \in 1..Len(s) : s[i] = token
    THEN (CHOOSE i \in 1..Len(s) : s[i] = token /\ \A j \in 1..(i - 1) : s[j] # token) - 1
    ELSE -1

\* str.rfind(token): the 0-based position of the last occurrence, or -1
RFind(s, token) ==
    IF \E i \in 1..Len(s) : s[i] = token
    THEN (CHOOSE i \in 1..Len(s) : s[i] = token /\ \A j \in (i + 1)..Len(s) : s[j] # token) - 1
    ELSE -1

\* s[start:stop] with 0-based positions; a negative stop counts from the end
Slice(s, start, stop) ==
    LET end == IF stop < 0 THEN Max2(0, Len(s) + stop) ELSE stop
    IN  SubSeq(s, start + 1, end)

\* str.split(sep)
RECURSIVE Split(_, _)
Split(s, sep) ==
    LET at == Find(s, sep) IN
    IF at = -1 THEN <<s>>
    ELSE <<SubSeq(s, 1, at)>> \o Split(SubSeq(s, at + 2, Len(s)), sep)

\* str.strip('"')
RECURSIVE StripQuotes(_)
StripQuotes(s) ==
    IF s # <<>> /\ Head(s) = "\"" THEN StripQuotes(Tail(s))
    ELSE IF s # <<>> /\ s[Len(s)] = "\"" THEN StripQuotes(SubSeq(s, 1, Len(s) - 1))
    ELSE s

\* The numerals of the scrape texts and the floats they denote
Numerals == {<<"1", 1>>, <<"2", 2>>}

\* float(text): Some(value), or None for the ValueError of a text that is no number
FloatOf(text) ==
    IF Len(text) = 1 /\ \E nv \in Numerals : nv[1] = text[1]
    THEN Some(Get(Numerals, text[1], 0))
    ELSE None

\* labels after the loop over the first k label pairs: a later pair overrides
RECURSIVE LabelsOf(_, _)
LabelsOf(label_pairs, k) ==
    IF k = 0 THEN EmptyDict
    ELSE LET labels == LabelsOf(label_pairs, k - 1)
             label_pair == label_pairs[k]
             at == Find(label_pair, "=")
             key == SubSeq(label_pair, 1, at)
             val == StripQuotes(SubSeq(label_pair, at + 2, Len(label_pair)))
         IN  IF at = -1 THEN labels
             ELSE {kv \in labels : kv[1] # key} \cup {<<key, val>>}

\* The body of the loop of _parse_vm_metrics for one target-metric line: the
\* vm_info it builds (its hypervisor, node_name and state are left out), or None
\* when the line is skipped or float raises the ValueError the loop catches
ParseMetricLine(line) ==
    LET parts == Split(line, " ") IN
    IF Len(parts) # 2 THEN None
    ELSE LET labels_part == parts[1]
             value == FloatOf(parts[2])
             labels_str == Slice(labels_part, Find(labels_part, "{") + 1,
                                 RFind(labels_part, "}"))
             labels == LabelsOf(Split(labels_str, ","), Len(Split(labels_str, ",")))
         IN  IF value = None THEN None
             ELSE Some([vm_id |-> Get(labels, <<"vm_id">>, <<>>),
                        vm_name |-> Get(labels, <<"vm_name">>, <<>>),
                        zone |-> Get(labels, <<"zone">>, <<>>),
                        watts |-> TheValue(value)])

\* line.startswith('kepler_vm_cpu_watts{')
IsTargetLine(line) ==
    Len(line) >= 2 /\ line[1] = "kepler_vm_cpu_watts" /\ line[2] = "{"

\* metrics after the loop of _parse_vm_metrics over the first k lines
RECURSIVE ParseLines(_, _)
ParseLines(lines, k) ==
    IF k = 0 THEN [core |-> <<>>, package |-> <<>>]
    ELSE LET metrics == ParseLines(lines, k - 1)
             vm_info == IF IsTargetLine(lines[k]) THEN ParseMetricLine(lines[k]) ELSE None
         IN  IF vm_info = None THEN metrics
             ELSE IF TheValue(vm_info).zone = <<"core">>
                  THEN [metrics EXCEPT !.core = Append(@, TheValue(vm_info))]
             ELSE IF TheValue(vm_info).zone = <<"package">>
                  THEN [metrics EXCEPT !.package = Append(@, TheValue(vm_info))]
             ELSE metrics

\* BaremetalPowerCollector._parse_vm_metrics on the lines of a scrape text
ParseVmMetricsText(lines) == ParseLines(lines, Len(lines))

\* name="value"
Label(name, value) == <<name, "=", "\"", value, "\"">>

\* The labels of the VM vm_name in the zone zone
LabelsText(vm_name, zone) == Label("vm_name", vm_name) \o <<",">> \o Label("zone", zone)

\* The lines of a scrape text: well-formed target-metric lines, target-metric
\* lines without a value, with a text for a value, without the closing brace,
\* with a second closing or opening brace, and a line of another metric
TextLines ==
    {<<"kepler_vm_cpu_watts", "{">> \o LabelsText("vm1", zone) \o <<"}", " ", "1">> :
        zone \in {"core", "package"}}
    \cup {<<"kepler_vm_cpu_watts", "{">> \o LabelsText("vm2", "core") \o <<"}">>,
          <<"kepler_vm_cpu_watts", "{">> \o LabelsText("vm2", "core") \o <<"}", " ">>,
          <<"kepler_vm_cpu_watts", "{">> \o LabelsText("vm2", "core") \o <<"}", " ", "abc">>,
          <<"kepler_vm_cpu_watts", "{">> \o LabelsText("vm2", "core") \o <<" ", "2">>,
          <<"kepler_vm_cpu_watts", "{">> \o LabelsText("vm2", "core") \o <<"}", "}", " ", "2">>,
          <<"kepler_vm_cpu_watts", "{", "{">> \o LabelsText("vm2", "core") \o <<"}", " ", "2">>,
          <<"kepler_node_cpu_watts", "{">> \o Label("zone", "core") \o <<"}", " ", "2">>}

\* A call of _parse_vm_metrics on a scrape text
CallParseVmMetrics ==
    /\ fn_call = NoCall /\ OrchestratorIdle
    /\ \E lines \in SeqsUpTo(TextLines, MaxLines) :
          fn_call' = [fn |-> "_parse_vm_metrics", lines |-> lines,
                      result |-> ParseVmMetricsText(lines)]

\* ------------------------------------------------------------------ function calls
\* The cpu lines of an earlier and of a later /proc/stat snapshot (the fields
\* that are not listed are 0 in both)
PrevCpuLines ==
    {{<<"user", u>>, <<"idle", i>>} : u \in 0..MaxCounter, i \in 0..MaxCounter}

CurrCpuLines ==
    {{<<"user", u>>, <<"idle", i>>} : u \in 0..MaxCounter, i \in 0..MaxJiffies}

\* The snapshots _read_proc_stat can return over the given cpu lines: each of
\* the cpu line and the ctxt line may be missing ({} when the file is unreadable)
ProcStatSnapshots(cpu_lines) ==
    {cpu \cup ctxt :
        cpu \in {EmptyDict} \cup {{<<"cpu", line>>} : line \in cpu_lines},
        ctxt \in {EmptyDict} \cup {{<<"context_switches", n>>} : n \in 0..MaxCounter}}

\* The snapshots _snapshot_os_counters can return: cumulative cpu seconds and
\* sent bytes, {} when psutil fails
OsSnapshots ==
    {cpu \cup net :
        cpu \in {EmptyDict}
                \cup {{<<"cpu_times", {<<"user", Float(u)>>, <<"idle", Float(i)>>}>>} :
                         u \in 0..MaxCounter, i \in 0..MaxCounter},
        net \in {EmptyDict}
                \cup {{<<"net_io", {<<"bytes_sent", n>>}>>} : n \in 0..MaxCounter}}

\* A call of _compute_proc_stat_deltas on two snapshots
CallComputeProcStatDeltas ==
    /\ fn_call = NoCall /\ OrchestratorIdle
    /\ \E prev_stat \in ProcStatSnapshots(PrevCpuLines),
          curr_stat \in ProcStatSnapshots(CurrCpuLines),
          time_delta \in 1..MaxInterval :
          fn_call' = [fn |-> "_compute_proc_stat_deltas",
                      prev_stat |-> prev_stat, curr_stat |-> curr_stat,
                      result |-> compute_proc_stat_deltas(prev_stat, curr_stat, time_delta)]

\* A call of _compute_os_metrics_from_snapshots on two snapshots, and the
\* cpu_utilization collect_feature_point gives the point
CallComputeOsMetrics ==
    /\ fn_call = NoCall /\ OrchestratorIdle
    /\ \E snap0 \in OsSnapshots, snap1 \in OsSnapshots, time_delta \in 1..MaxInterval :
          LET aligned_os == compute_os_metrics_from_snapshots(snap0, snap1,
                                                              Float(time_delta))
          IN  fn_call' = [fn |-> "_compute_os_metrics_from_snapshots",
                          snap0 |-> snap0, snap1 |-> snap1,
                          result |-> aligned_os,
                          cpu_utilization |-> Get(aligned_os, "cpu_utilization", 0)]

\* The counters the derived ratios are taken from
RatioCounters ==
    {"cpu_cycles", "instructions", "cache_references", "cache_misses", "branches",
     "branch_misses"}

\* The dicts _parse_perf_output can return over these counters: each counter is
\* missing (-1 below) or holds a count
PmcDicts ==
    {{<<k, f[k]>> : k \in {c \in RatioCounters : f[c] >= 0}} :
        f \in [RatioCounters -> -1..MaxPmcCount]}

\* The aligned OS metrics the derived features read: none, or the two percentages
OsDataDicts ==
    {EmptyDict, {<<"cpu_user_time", Float(1)>>, <<"cpu_system_time", Float(2)>>}}

\* A call of calculate_derived_features
CallCalculateDerivedFeatures ==
    /\ fn_call = NoCall /\ OrchestratorIdle
    /\ \E pmc_data \in PmcDicts, os_data \in OsDataDicts :
          fn_call' = [fn |-> "calculate_derived_features",
                      pmc_data |-> pmc_data, os_data |-> os_data,
                      result |-> calculate_derived_features(pmc_data, os_data)]

\* The statistics a summary can be printed for: those of a merger before its merge
\* and those a merge of vm_feature_points features can leave
SummaryStatistics ==
    UNION {{[MergeStatistics EXCEPT !.vm_feature_points = points,
                                    !.matched_points = matched,
                                    !.unmatched_vm_points = points - matched,
                                    !.average_time_diff = [sum |-> diff, n |-> 1],
                                    !.max_time_diff = diff] :
               matched \in 0..points, diff \in 0..MaxTol} :
           points \in 0..MaxSummaryPoints}

\* A call of print_merge_summary
CallPrintMergeSummary ==
    /\ fn_call = NoCall /\ OrchestratorIdle
    /\ \E stats \in SummaryStatistics, tolerance \in 0..MaxTol :
          fn_call' = [fn |-> "print_merge_summary",
                      statistics |-> stats, time_tolerance |-> tolerance,
                      result |-> print_merge_summary(stats, tolerance)]

\* ------------------------------------------------------------------ merger claims
\* The number of elements of s with timestamp t
CountAt(s, t) == Cardinality({j \in 1..Len(s) : s[j].timestamp = t})

\* The 0-based indices of the power rows within the tolerance of timestamp t
WithinTolerance(t) ==
    {i \in 0..(Len(bm_data) - 1) : Abs(bm_data[i + 1].timestamp - t) <= time_tolerance}

\* The exhaustive search: the lowest index among the rows within the tolerance
\* that have the smallest absolute time difference (Some(index), or None)
ExhaustiveClosest(t) ==
    LET W == WithinTolerance(t)
        best == {i \in W : \A j \in W : Abs(bm_data[i + 1].timestamp - t)
                                          <= Abs(bm_data[j + 1].timestamp - t)}
    IN  IF W = {} THEN None
        ELSE Some(CHOOSE i \in best : \A j \in best : i <= j)

\* The wattage of the zone the merger was configured with (core when the zone is
\* not one of the two known ones)
SelectedZoneWatts(power_point) ==
    IF power_zone = "package" THEN power_point.total_cpu_watts_package
    ELSE power_point.total_cpu_watts_core

Merged == merge_pc = "merge" /\ merge_calls >= 1

\* C1: every merged record has time_diff = |timestamp - bm_timestamp| <= the
\* tolerance, and statistics.max_time_diff <= the tolerance
MatchWithinTolerance ==
    /\ \A j \in 1..Len(merged_data) :
          /\ merged_data[j].time_diff
                = Abs(merged_data[j].timestamp - merged_data[j].bm_timestamp)
          /\ merged_data[j].time_diff <= time_tolerance
    /\ statistics.max_time_diff <= time_tolerance

\* C1 witness: a merge has produced a record whose time difference is exactly a
\* non-zero tolerance
MatchAtToleranceReached ==
    /\ Merged
    /\ time_tolerance > 0
    /\ \E j \in 1..Len(merged_data) : merged_data[j].time_diff = time_tolerance
    /\ statistics.max_time_diff = time_tolerance

\* C2: after the merge, no record exists for a feature timestamp that no power
\* row is within the tolerance of, and the features of one timestamp yield at
\* most as many records as there are such features
NoMatchNoRecord ==
    Merged =>
        \A k \in 1..Len(vm_data) :
            LET t == vm_data[k].timestamp IN
            /\ WithinTolerance(t) = {} => CountAt(merged_data, t) = 0
            /\ CountAt(merged_data, t) <= CountAt(vm_data, t)

\* C2 witness: a merge in which one feature had no row within the tolerance and
\* another feature was matched
NoMatchNoRecordReached ==
    /\ Merged
    /\ \E k \in 1..Len(vm_data) : WithinTolerance(vm_data[k].timestamp) = {}
    /\ Len(merged_data) >= 1

\* C3: for every feature, the row the scan from the cursor chooses is the row
\* the exhaustive search over all rows chooses
CursorScanIsExhaustive ==
    merge_pc = "merge" =>
        \A k \in 1..Len(vm_data) :
            LET t == vm_data[k].timestamp
                found == find_closest_power_point(t, MergeLoop(k - 1).bm_search_start)
                best == ExhaustiveClosest(t)
            IN  IF best = None THEN found[1] = None
                ELSE /\ found[1] = Some(bm_data[TheValue(best) + 1])
                     /\ found[2] = TheValue(best)

\* C3 witness: a feature is scanned from a cursor past the first row and finds a
\* row, while a row before the cursor is also within the tolerance
CursorScanPastStartReached ==
    /\ merge_pc = "merge"
    /\ \E k \in 1..Len(vm_data) :
          LET t == vm_data[k].timestamp
              c == MergeLoop(k - 1).bm_search_start
          IN  /\ c > 0
              /\ find_closest_power_point(t, c)[1] # None
              /\ \E i \in WithinTolerance(t) : i < c

\* C4: a feature whose closest row within the tolerance is below the noise floor
\* yields no record; one whose closest row is at or above it yields a record
\* carrying that row's selected-zone wattage
NoiseFloorDecides ==
    Merged /\ merge_calls = 1 =>
        \A k \in 1..Len(vm_data) :
            LET t == vm_data[k].timestamp
                best == ExhaustiveClosest(t)
            IN  best # None =>
                    LET row == bm_data[TheValue(best) + 1]
                        watts == SelectedZoneWatts(row)
                    IN  IF watts < min_power_threshold
                        THEN CountAt(merged_data, t) = 0
                        ELSE /\ CountAt(merged_data, t) = CountAt(vm_data, t)
                             /\ \A j \in 1..Len(merged_data) :
                                   merged_data[j].timestamp = t =>
                                       /\ merged_data[j].power_watts = watts
                                       /\ merged_data[j].bm_timestamp = row.timestamp

\* C4 witness: a merge in which the closest row of one feature was below the
\* noise floor although another row within the tolerance was above it, and the
\* package zone was selected
NoiseFloorDropReached ==
    /\ Merged
    /\ power_zone = "package"
    /\ \E k \in 1..Len(vm_data) :
          LET t == vm_data[k].timestamp
              best == ExhaustiveClosest(t)
          IN  /\ best # None
              /\ SelectedZoneWatts(bm_data[TheValue(best) + 1]) < min_power_threshold
              /\ \E i \in WithinTolerance(t) :
                    SelectedZoneWatts(bm_data[i + 1]) >= min_power_threshold
              /\ CountAt(merged_data, t) = 0
    /\ Len(merged_data) >= 1

\* The features that have no power row within the tolerance
TemporallyUnmatched ==
    {k \in 1..Len(vm_data) : WithinTolerance(vm_data[k].timestamp) = {}}

\* C5: the unmatched count of the statistics holds only the features with no
\* row within the tolerance; a feature dropped by the noise floor is not in it
FilteredNotCountedUnmatched ==
    Merged => statistics.unmatched_vm_points = Cardinality(TemporallyUnmatched)

\* C6: a second merge over the same inputs and configuration leaves the merged
\* records and the statistics as the first merge left them
RemergeIdentical ==
    [][(merge_pc = "merge" /\ merge_calls >= 1 /\ merge_calls' = merge_calls + 1)
          => (merged_data' = merged_data /\ statistics' = statistics)]_vars

\* C7: the scenario yields exactly the two records 0.0 s with 0.05 s and 1.0 s with
\* 0.95 s, each 0.05 s apart, 2 unmatched features and an average of 0.05 s
ScenarioResult ==
    Merged =>
        /\ Len(merged_data) = 2
        /\ merged_data[1].timestamp = 0 /\ merged_data[1].bm_timestamp = 1
        /\ merged_data[1].time_diff = 1
        /\ merged_data[2].timestamp = 20 /\ merged_data[2].bm_timestamp = 19
        /\ merged_data[2].time_diff = 1
        /\ statistics.matched_points = 2
        /\ statistics.unmatched_vm_points = 2
        /\ statistics.average_time_diff.sum = 1 * statistics.average_time_diff.n

\* C7 witness: the scenario's merge has run, from a feature file that was not in
\* timestamp order
ScenarioMerged ==
    /\ Merged
    /\ statistics.vm_feature_points = 4
    /\ statistics.bm_power_points = 3
    /\ merge_result = "True"

\* The 0-based index of the power row that the k-th feature of the merge got
\* attached, in a set: empty when the feature was unmatched or dropped
AttachedRow(k) ==
    LET found == find_closest_power_point(vm_data[k].timestamp,
                                          MergeLoop(k - 1).bm_search_start)
    IN  IF found[1] # None /\ get_power_label(TheValue(found[1])) >= min_power_threshold
        THEN {found[2]}
        ELSE {}

\* The power rows attached to a merged record
AttachedRows == UNION {AttachedRow(k) : k \in 1..Len(vm_data)}

\* C27: after a merge, matched_points + unmatched_vm_points = vm_feature_points
\* and unmatched_bm_points is the number of power rows attached to no merged record
StatisticsAccountBothSides ==
    Merged =>
        /\ statistics.matched_points + statistics.unmatched_vm_points
              = statistics.vm_feature_points
        /\ statistics.unmatched_bm_points = Len(bm_data) - Cardinality(AttachedRows)

\* The features of a merge that got no record
WithoutRecord == {k \in 1..Len(vm_data) : AttachedRow(k) = {}}

\* C30 as stated: features that went unmatched never make merge_datasets return
\* False on loaded inputs, so main does not exit with status 1 after the merge
UnmatchedNeverFails ==
    (merge_calls >= 1 /\ vm_data # <<>> /\ bm_data # <<>>) => merge_result = "True"

\* C30: a feature with no row within the tolerance gets no record and is counted
\* in unmatched_vm_points, the features after it are still merged, and as long as
\* one feature is matched merge_datasets returns True and main goes on to save;
\* main exits with status 1 after the merge only if merge_datasets returned False
\* (no feature was matched) or the dataset could not be saved
UnmatchedFeatureIsNoError ==
    /\ merge_calls >= 1 =>
          /\ TemporallyUnmatched \subseteq WithoutRecord
          /\ statistics.unmatched_vm_points = Cardinality(WithoutRecord)
          /\ Len(merged_data) = Len(vm_data) - Cardinality(WithoutRecord)
          /\ merged_data # <<>> => merge_result = "True"
          /\ merged_data = <<>> => merge_result = "False"
    /\ merge_pc = "exit_0" =>
          /\ merge_result = "True"
          /\ output_file = Some(merged_data)
    /\ (merge_pc = "exit_1" /\ merge_calls >= 1 /\ merge_result = "True") =>
          output_file = None

\* C30 witness: main has ended with status 0 after a merge whose first feature had
\* no row within the tolerance and whose second feature was matched
UnmatchedThenMatchedSaved ==
    /\ merge_pc = "exit_0"
    /\ Len(vm_data) = 2
    /\ 1 \in TemporallyUnmatched
    /\ AttachedRow(2) # {}
    /\ statistics.unmatched_vm_points = 1
    /\ output_file # None

\* The locals of collect_power_data show that no iteration has started
NoCollectionCycle ==
    /\ bp_loop.iterations = 0
    /\ bp_loop.collection_count = 0
    /\ bp_loop.error_count = 0
    /\ power_data = <<>>
    /\ ~bm_collection_active

\* C29: a connectivity test that returns None ends bm_power_collector.main with
\* status 1 before collect_power_data has started, and the process stays ended,
\* so that no iteration runs and no file is written; an empty or missing input
\* file ends merge_datasets.main with status 1 before merge_datasets is called
\* and before anything is saved, and merge_datasets only runs on two loaded files
SetupFailureIsFatal ==
    /\ [](bp_pc \in {"probe", "probe_backoff"} => NoCollectionCycle)
    /\ [](merge_calls >= 1 => (vm_data # <<>> /\ bm_data # <<>>))
    /\ [](merge_pc \in {"load_bm", "merge", "exit_0"} => vm_data # <<>>)
    /\ [](merge_pc \in {"merge", "exit_0"} => bm_data # <<>>)
    /\ [][/\ (bp_pc = "probe" /\ bp_fetch'.outcome \in {"exhausted", "unexpected"})
             => (bp_pc' = "exit_1" /\ NoCollectionCycle')
          /\ bp_pc = "exit_1" => UNCHANGED power_vars
          /\ (merge_pc \in {"load_vm", "load_bm"} /\ merge_pc' = "exit_1")
             => (merge_calls' = 0 /\ merged_data' = <<>> /\ output_file' = None)
          /\ merge_pc = "exit_1" => UNCHANGED merger_vars]_vars

\* C29 witness: the feature file was loaded, the power file was empty or missing,
\* and main has ended with status 1 without a merge and without an output file
MissingInputExited ==
    /\ merge_pc = "exit_1"
    /\ vm_data # <<>>
    /\ bm_data = <<>>
    /\ merge_calls = 0
    /\ merged_data = <<>>
    /\ output_file = None

\* C32: over the sorted inputs the cursor bm_search_start is 0 before the first
\* feature and never decreases from one feature to the next, and the index of
\* the attached power row never decreases from one accepted match to the next
CursorMonotone ==
    Merged =>
        /\ MergeLoop(0).bm_search_start = 0
        /\ \A k \in 1..Len(vm_data) :
              MergeLoop(k).bm_search_start >= MergeLoop(k - 1).bm_search_start
        /\ \A k1, k2 \in 1..Len(vm_data) :
              k1 < k2 =>
                  \A j1 \in AttachedRow(k1), j2 \in AttachedRow(k2) : j1 <= j2

\* C32 witness: a merge of two matched features in which the cursor has moved
\* forward and the second match is a later row than the first
CursorAdvanced ==
    /\ Merged
    /\ Len(vm_data) = 2
    /\ MergeLoop(2).bm_search_start > MergeLoop(1).bm_search_start
    /\ \E j1 \in AttachedRow(1), j2 \in AttachedRow(2) : j1 < j2

\* C33: after any number of calls of merge_datasets on one merger, merged_data
\* has statistics.matched_points records, at most one record for each feature,
\* in ascending order of the features' timestamps
OneRecordPerFeature ==
    merge_calls >= 1 =>
        /\ Len(merged_data) = statistics.matched_points
        /\ Len(merged_data) <= Len(vm_data)
        /\ \A j \in 1..Len(merged_data) - 1 :
              merged_data[j].timestamp <= merged_data[j + 1].timestamp

\* ------------------------------------------------------------------ collector claims
\* The positions a synchronized cycle passes through, in order: T0 snapshot,
\* perf measurement, remainder wait, T1 snapshot, emit
SyncOrder ==
    {<<"loop", "t0">>, <<"t0", "measure">>, <<"measure", "perf">>,
     <<"measure", "after_pmc">>, <<"perf", "after_pmc">>, <<"after_pmc", "wait">>,
     <<"after_pmc", "t1">>, <<"wait", "t1">>, <<"t1", "return_point">>,
     <<"return_point", "schedule">>}

\* The positions of a cycle after its T0 snapshot and before its end
InCycle == {"measure", "perf", "after_pmc", "wait", "t1", "return_point"}

\* C8: in synchronized mode a cycle that has a point to emit has T1 - T0 >= the
\* collection interval, and so has every point emitted
WindowAtLeastInterval ==
    synchronized =>
        /\ vc_pc = "return_point" =>
              TheValue(vc_cycle.t1) - TheValue(vc_cycle.t0) >= collection_interval
        /\ \A j \in 1..Len(feature_data) :
              feature_data[j].time_delta_seconds >= collection_interval

\* C8 witness: a cycle whose perf measurement failed before the interval was over
\* took its T1 snapshot exactly one interval after T0
WindowAfterFailedPerfReached ==
    /\ synchronized
    /\ vc_pc = "return_point"
    /\ vc_cycle.pmc_outcome = "failed"
    /\ TheValue(vc_cycle.t_after_pmc) - TheValue(vc_cycle.t0) < collection_interval
    /\ TheValue(vc_cycle.t1) - TheValue(vc_cycle.t0) = collection_interval

\* C9: every point of feature_data, in either mode, records a window length that
\* is at least its collection interval
RecordedWindowAtLeastInterval ==
    \A j \in 1..Len(feature_data) :
        feature_data[j].time_delta_seconds >= feature_data[j].collection_interval

\* C10: a synchronized cycle moves through its steps in order; feature_data only
\* grows by the point of a cycle whose T1 snapshot was taken, and that point has
\* the cycle's T1 as timestamp and the deltas of the cycle's own T0 and T1 snapshots
SyncCycleInOrder ==
    [][synchronized =>
          /\ (vc_pc' # vc_pc /\ (vc_pc \in InCycle \/ vc_pc' \in InCycle))
                => \/ <<vc_pc, vc_pc'>> \in SyncOrder
                   \/ vc_pc' = "exit_1"
                   \/ /\ vc_pc' \in {"schedule", "sleep_next"}
                      /\ vc_loop'.error_count = vc_loop.error_count + 1
          /\ feature_data' # feature_data
                => /\ vc_pc = "return_point"
                   /\ vc_cycle.t0 # None /\ vc_cycle.t1 # None
                   /\ TheValue(vc_cycle.t0) <= TheValue(vc_cycle.t1)
                   /\ Len(feature_data') = Len(feature_data) + 1
                   /\ LET p == feature_data'[Len(feature_data')] IN
                      /\ feature_data' = Append(feature_data, p)
                      /\ p.timestamp = TheValue(vc_cycle.t1)
                      /\ p.time_delta_seconds
                            = TheValue(vc_cycle.t1) - TheValue(vc_cycle.t0)
                      /\ p.sys_context_switches
                            = Max2(0, Get(vc_cycle.proc_stat1, "context_switches", 0)
                                        - Get(vc_cycle.proc_stat0, "context_switches", 0))
          /\ (vc_pc = "t1" /\ vc_pc' = "return_point")
                => /\ vc_cycle'.t1 = Some(clock)
                   /\ vc_cycle'.proc_stat1 = read_proc_stat
                   /\ vc_cycle'.t0 = vc_cycle.t0
                   /\ vc_cycle'.proc_stat0 = vc_cycle.proc_stat0
          /\ (vc_pc = "t0" /\ vc_pc' = "measure")
                => /\ vc_cycle'.t0 = Some(clock)
                   /\ vc_cycle'.proc_stat0 = read_proc_stat
                   /\ vc_cycle'.t1 = None
      ]_vars

\* C10 witness: a second synchronized point has been appended, after the counter
\* moved between the two cycles
SecondSyncPointReached ==
    /\ synchronized
    /\ Len(feature_data) = 2
    /\ vc_pc = "schedule"
    /\ Get(vc_cycle.proc_stat0, "context_switches", 0) > 0
    /\ feature_data[2].sys_context_switches = 0
    /\ feature_data[2].timestamp > feature_data[1].timestamp

\* C11: a failed cycle appends nothing and adds exactly one to error_count; the
\* samples appended before stay; after the failure the loop is tested again and
\* starts a further cycle while it is active and the duration has not elapsed
CycleFailureCounted ==
    [][/\ vc_loop'.error_count # vc_loop.error_count
            => /\ vc_loop'.error_count = vc_loop.error_count + 1
               /\ vc_loop'.collection_count = vc_loop.collection_count
               /\ feature_data' = feature_data
               /\ vc_pc' \in {"schedule", "sleep_next"}
       /\ (vc_pc \in InCycle \cup {"build"} /\ vc_pc' \in {"schedule", "sleep_next"})
            => (feature_data' = feature_data)
                  = (vc_loop'.error_count = vc_loop.error_count + 1)
       /\ Len(feature_data') >= Len(feature_data)
       /\ SubSeq(feature_data', 1, Len(feature_data)) = feature_data
       /\ (vc_pc \in {"schedule", "sleep_next"} /\ vc_pc' # vc_pc)
            => vc_pc' \in {"sleep_next", "loop", "exit_1"}
       /\ (vc_pc = "loop" /\ vc_pc' # vc_pc /\ collection_active
             /\ (clock - vc_loop.start_time) < duration)
            => vc_pc' \in {"t0", "exit_1"}
      ]_vars

\* C11 witness: a cycle failed, and a later cycle of the same run appended its point
SampleAfterFailureReached ==
    /\ vc_loop.error_count >= 1
    /\ vc_pc = "schedule"
    /\ vc_cycle.point # None
    /\ Len(feature_data) >= 1
    /\ feature_data[Len(feature_data)] = TheValue(vc_cycle.point)

\* C12: once a first signal was handled the loop starts no new cycle and goes to its
\* end; the signal leaves the cycle in progress alone, and what is appended is the
\* complete point of a cycle
GracefulStop ==
    [][/\ (shutdown_requested /\ vc_pc = "loop" /\ vc_pc' # vc_pc)
            => vc_pc' \in {"finish", "exit_1"}
       /\ (signals = 0 /\ signals' = 1)
            => /\ vc_pc' = vc_pc
               /\ vc_cycle' = vc_cycle
               /\ feature_data' = feature_data
       /\ feature_data' # feature_data
            => /\ vc_cycle.point # None
               /\ synchronized => vc_cycle.t1 # None
               /\ feature_data' = Append(feature_data, TheValue(vc_cycle.point))
      ]_vars

NoSleepAfterFullWindow ==
    [][(/\ synchronized
        /\ vc_pc = "schedule"
        /\ vc_cycle.point # None
        /\ TheValue(vc_cycle.t1) - TheValue(vc_cycle.t0) >= collection_interval
        /\ vc_pc' \notin {"schedule", "exit_1"})
          => vc_pc' = "loop"]_vars

\* ------------------------------------------------------------------ power collector claims
\* The positions of collect_power_data inside one loop iteration
InIteration == {"sleep_target", "fetch", "get", "backoff", "fetched"}

\* C14: the target time of the k-th loop iteration (k counted from 0) is
\* start_time + k * collection_interval
ScheduleAnchored ==
    bp_pc \in InIteration =>
        bp_loop.target_time
            = bp_loop.start_time + (bp_loop.iterations - 1) * bm_collection_interval

\* C14 witness: an iteration that follows a missing sample and starts behind its target
LateIterationReached ==
    /\ bp_pc = "fetch"
    /\ bp_loop.iterations >= 2
    /\ bp_loop.error_count > 0
    /\ bm_clock > bp_loop.target_time

\* C15: a run without signal in which no iteration started behind its target and no
\* sample was missing runs at most floor(duration / interval) iterations, and none
\* with a target of start_time + floor(duration / interval) * interval or later
ExactlyFloorCycles ==
    (/\ ~bm_shutdown_requested
     /\ bp_loop.behind = 0
     /\ bp_loop.error_count = 0)
        => /\ bp_loop.iterations <= bm_duration \div bm_collection_interval
           /\ bp_pc \in InIteration =>
                 bp_loop.target_time
                     < bp_loop.start_time
                         + (bm_duration \div bm_collection_interval) * bm_collection_interval

\* C16: the data point an iteration gets carries the iteration's target time as
\* timestamp_absolute and k * collection_interval as timestamp, and so does every
\* data point of power_data
TargetTimestamped ==
    /\ (bp_pc = "fetched" /\ bp_fetch.data_point # None)
          => /\ TheValue(bp_fetch.data_point).timestamp_absolute = bp_loop.target_time
             /\ TheValue(bp_fetch.data_point).timestamp
                   = (bp_loop.iterations - 1) * bm_collection_interval
    /\ \A j \in 1..Len(power_data) :
          /\ power_data[j].timestamp_absolute = bp_loop.start_time + power_data[j].timestamp
          /\ \E k \in 0..(bp_loop.iterations - 1) :
                power_data[j].timestamp = k * bm_collection_interval

\* C16 witness: an iteration that started behind its target got its data point
\* after a failed attempt
LateSampleReached ==
    /\ bp_pc = "fetched"
    /\ bp_fetch.data_point # None
    /\ bp_fetch.failures >= 1
    /\ bp_loop.behind >= 1
    /\ bm_clock > bp_loop.target_time

\* C17: a fetch makes at most max_retries requests and sleeps one backoff after each
\* failed request but the last; a data point comes from the first request that
\* succeeds; after max_retries failures there is none; and the loop is left only
\* when its condition is false
FetchBounded ==
    /\ bp_fetch.gets <= max_retries
    /\ bp_fetch.outcome = "ok"
          => /\ bp_fetch.data_point # None
             /\ bp_fetch.gets = bp_fetch.failures + 1
             /\ bp_fetch.backoffs = bp_fetch.failures
    /\ bp_fetch.outcome = "exhausted"
          => /\ bp_fetch.data_point = None
             /\ bp_fetch.failures = max_retries
             /\ bp_fetch.gets = max_retries
             /\ bp_fetch.backoffs = max_retries - 1
    /\ bp_fetch.outcome = "none" => bp_fetch.backoffs = bp_fetch.failures
    /\ bp_pc = "backoff" => bp_loop.wake_at <= bm_clock + BackoffSeconds
    /\ bp_pc = "finish"
          => \/ bm_shutdown_requested
             \/ (bm_clock - bp_loop.start_time) >= bm_duration

\* C17 witness: after a fetch that used up its attempts the run went on, and a later
\* fetch got its data point at the second attempt
RetriedFetchAfterExhaustedReached ==
    /\ bp_pc = "fetched"
    /\ bp_loop.iterations >= 2
    /\ bp_loop.error_count >= 2
    /\ bp_fetch.outcome = "ok"
    /\ bp_fetch.failures = 1

\* C18: an iteration that got no sample adds one to collection_count and nothing to
\* power_data; every iteration's target is start_time + collection_count *
\* collection_interval with collection_count the number of iterations before it; and
\* a data point is appended with its own iteration's timestamp
MissingCycleKeepsSchedule ==
    [][/\ (bp_pc = "fetched" /\ bp_fetch.data_point = None
             /\ bp_pc' \notin {"fetched", "exit_1"})
            => /\ bp_loop'.collection_count = bp_loop.collection_count + 1
               /\ power_data' = power_data
       /\ (bp_pc = "loop" /\ bp_pc' \in {"sleep_target", "fetch"})
            => /\ bp_loop.collection_count = bp_loop.iterations
               /\ bp_loop'.target_time
                     = bp_loop.start_time
                         + bp_loop.collection_count * bm_collection_interval
       /\ power_data' # power_data
            => /\ bp_fetch.data_point # None
               /\ power_data' = Append(power_data, TheValue(bp_fetch.data_point))
               /\ TheValue(bp_fetch.data_point).timestamp
                     = (bp_loop.iterations - 1) * bm_collection_interval
      ]_vars

\* C18 witness: the first iteration got no sample and the second one was appended
SampleAfterMissingReached ==
    /\ bp_pc = "loop"
    /\ bp_loop.collection_count = 2
    /\ bp_loop.error_count >= 1
    /\ Len(power_data) = 1
    /\ power_data[1].timestamp = bm_collection_interval

\* C35: an iteration whose fetch returned None adds exactly one to error_count
\* and goes back to the loop test with no exception handled and no sleep of its
\* own, and after the loop collection_count = len(power_data) + error_count
MissingSampleCountedOnce ==
    /\ [][(bp_pc = "fetched" /\ bp_fetch.data_point = None
             /\ bp_pc' \notin {"fetched", "exit_1"})
            => /\ bp_loop'.error_count = bp_loop.error_count + 1
               /\ bp_pc' = "loop"
               /\ bp_loop'.wake_at = bp_loop.wake_at]_vars
    /\ [](bp_pc \in {"finish", "done"}
            => bp_loop.collection_count = Len(power_data) + bp_loop.error_count)

\* The name-set criterion of the filter
InNameSet(vm) ==
    /\ target_vms # None
    /\ (vm.vm_name \in TheValue(target_vms) \/ vm.vm_id \in TheValue(target_vms))

\* The pattern criterion, tried on every field
MatchesPattern(vm) ==
    /\ vm_pattern # None
    /\ (vm.vm_name \in TheValue(vm_pattern) \/ vm.vm_id \in TheValue(vm_pattern))

\* The pattern criterion, tried on the fields that are not empty
MatchesPatternNonEmpty(vm) ==
    /\ vm_pattern # None
    /\ \/ (vm.vm_name # "" /\ vm.vm_name \in TheValue(vm_pattern))
       \/ (vm.vm_id # "" /\ vm.vm_id \in TheValue(vm_pattern))

\* The positions of vm_list whose entity satisfies Keep
KeptPositions(vm_list, Keep(_)) == {i \in 1..Len(vm_list) : Keep(vm_list[i])}

\* The entities of vm_list at the given positions, in the order of vm_list
RECURSIVE AtPositions(_, _)
AtPositions(vm_list, positions) ==
    IF positions = {} THEN <<>>
    ELSE LET last == CHOOSE i \in positions : \A j \in positions : j <= i
         IN  Append(AtPositions(vm_list, positions \ {last}), vm_list[last])

\* What the filter returns for vm_list when it keeps exactly the entities that
\* satisfy Keep, each once and in order, and everything when nothing is configured
FilterResult(vm_list, Keep(_)) ==
    IF target_vms = None /\ vm_pattern = None THEN vm_list
    ELSE AtPositions(vm_list, KeptPositions(vm_list, Keep))

\* The zone lists of the scrape of the last request
ScrapedZone(zone) == SelectSeq(bp_fetch.response, LAMBDA vm_info : vm_info.zone = zone)

\* C19 as stated: the filter keeps the entities whose vm_name or vm_id is in the name
\* set or matches the pattern
FilterKeepsAnyMatch ==
    bp_fetch.outcome = "ok" =>
        /\ bp_fetch.filtered_core
              = FilterResult(ScrapedZone("core"),
                             LAMBDA vm : InNameSet(vm) \/ MatchesPattern(vm))
        /\ bp_fetch.filtered_package
              = FilterResult(ScrapedZone("package"),
                             LAMBDA vm : InNameSet(vm) \/ MatchesPattern(vm))

\* C19: the filter keeps the entities whose vm_name or vm_id is in the name set, or
\* whose vm_name or vm_id is not empty and matches the pattern; each once, in order;
\* and every entity when neither is configured
FilterKeepsNonEmptyMatch ==
    bp_fetch.outcome = "ok" =>
        /\ bp_fetch.filtered_core
              = FilterResult(ScrapedZone("core"),
                             LAMBDA vm : InNameSet(vm) \/ MatchesPatternNonEmpty(vm))
        /\ bp_fetch.filtered_package
              = FilterResult(ScrapedZone("package"),
                             LAMBDA vm : InNameSet(vm) \/ MatchesPatternNonEmpty(vm))

\* C19 witness: with a pattern that matches every string, a scrape of two core
\* entities had the one without name and id dropped and the one with an id kept
FilterDroppedNamelessReached ==
    /\ bp_fetch.outcome = "ok"
    /\ target_vms = None
    /\ vm_pattern = Some({"", "vm1", "id1"})
    /\ Len(ScrapedZone("core")) = 2
    /\ ScrapedZone("core")[1].vm_name = ""
    /\ ScrapedZone("core")[1].vm_id = ""
    /\ ScrapedZone("core")[2].vm_id = "id1"
    /\ bp_fetch.filtered_core = <<ScrapedZone("core")[2]>>

\* The sum of the watts of the readings of the scrape at the given positions
RECURSIVE WattsAt(_)
WattsAt(positions) ==
    IF positions = {} THEN 0
    ELSE LET i == CHOOSE i \in positions : TRUE
         IN  bp_fetch.response[i].watts + WattsAt(positions \ {i})

\* The positions of the scrape with a reading of the zone that passes the filter
PassingPositions(zone) ==
    {i \in 1..Len(bp_fetch.response) :
        /\ bp_fetch.response[i].zone = zone
        /\ \/ (target_vms = None /\ vm_pattern = None)
           \/ InNameSet(bp_fetch.response[i])
           \/ MatchesPatternNonEmpty(bp_fetch.response[i])}

\* C20: the data point's totals are the sums of the watts of the readings of the
\* core zone and of the package zone that pass the filter, vm_count is the number
\* of those of the core zone, and there is a data point whatever the two counts
ZoneTotals ==
    bp_fetch.outcome = "ok" =>
        /\ bp_fetch.data_point # None
        /\ TheValue(bp_fetch.data_point).total_cpu_watts_core
              = WattsAt(PassingPositions("core"))
        /\ TheValue(bp_fetch.data_point).total_cpu_watts_package
              = WattsAt(PassingPositions("package"))
        /\ TheValue(bp_fetch.data_point).vm_count = Cardinality(PassingPositions("core"))

\* C20 witness: a data point for a scrape with a reading of another zone and more
\* core readings than package readings passing the filter
ZoneCountsDifferReached ==
    /\ bp_fetch.outcome = "ok"
    /\ bp_fetch.data_point # None
    /\ \E i \in 1..Len(bp_fetch.response) : bp_fetch.response[i].zone = "dram"
    /\ TheValue(bp_fetch.data_point).vm_count = 1
    /\ PassingPositions("package") = {}
    /\ TheValue(bp_fetch.data_point).total_cpu_watts_core > 0
    /\ TheValue(bp_fetch.data_point).total_cpu_watts_package = 0

\* C34: a collector whose handler has set _shutdown_requested starts no further
\* cycle: its loop test, whenever it is reached after the signal, ends the loop
NoCycleAfterShutdown ==
    [][/\ (bm_shutdown_requested /\ bp_pc = "loop" /\ bp_pc' # bp_pc)
            => bp_pc' \in {"finish", "exit_1"}
       /\ (shutdown_requested /\ vc_pc = "loop" /\ vc_pc' # vc_pc)
            => vc_pc' \in {"finish", "exit_1"}
      ]_vars

\* The collector's run has ended in collect_vm_features, by the expiry of the
\* duration or after one signal; the power collector's likewise
FeatureRunEnded == vc_pc = "done"

PowerRunEnded == bp_pc = "done"

\* C39: a run that has ended by the expiry of its duration or after one signal
\* has written every sample appended so far if there is one, and a run ended by
\* a second signal has written nothing
EndedRunsWriteForcedRunsDoNot ==
    /\ FeatureRunEnded => (feature_data # <<>> => feature_file = Some(feature_data))
    /\ PowerRunEnded => (power_data # <<>> => power_file = Some(power_data))
    /\ vc_pc = "exit_1" => feature_file = None
    /\ bp_pc = "exit_1" => power_file = None

\* What the output files do hold: a run that has ended has written every sample
\* appended so far if there is one, and no file otherwise; a second signal that
\* arrives before the loop has ended ends the process with nothing written, and
\* one that arrives later leaves what was written by then
OutputWrittenAtEnd ==
    /\ [](FeatureRunEnded =>
             feature_file = IF feature_data # <<>> THEN Some(feature_data) ELSE None)
    /\ [](PowerRunEnded =>
             power_file = IF power_data # <<>> THEN Some(power_data) ELSE None)
    /\ [](vc_pc \notin {"saving", "done", "exit_1"} => feature_file = None)
    /\ [](bp_pc \notin {"saving", "done", "exit_1"} => power_file = None)
    /\ [][/\ vc_pc' = "exit_1" => feature_file' = feature_file
          /\ bp_pc' = "exit_1" => power_file' = power_file]_vars

\* ------------------------------------------------------------------ degraded cycles
\* The outcomes of collect_pmc_metrics that give no counts
NoCounts == {"unavailable", "failed"}

\* The sys_context_switches the running cycle computes from its snapshots
CycleContextSwitches ==
    IF synchronized
    THEN Get(compute_proc_stat_deltas(vc_cycle.proc_stat0, vc_cycle.proc_stat1, 1),
             "sys_context_switches", 0)
    ELSE Get(vc_cycle.system_deltas, "sys_context_switches", 0)

\* The eight performance-counter fields and the three derived ratios are 0
ZeroPmcFeatures(point) ==
    /\ point.cpu_cycles = 0 /\ point.instructions = 0
    /\ point.cache_references = 0 /\ point.cache_misses = 0
    /\ point.branches = 0 /\ point.branch_misses = 0
    /\ point.page_faults = 0 /\ point.context_switches = 0
    /\ point.instructions_per_cycle = Zero
    /\ point.cache_miss_ratio = Zero
    /\ point.branch_miss_ratio = Zero

\* C25: a cycle whose performance-counter measurement is unavailable, fails or
\* times out goes on without counting an error, and returns a point whose
\* performance-counter fields and derived ratios are 0 and whose system-counter
\* fields are computed from its snapshots; appending it counts no error
PmcFailureDegradesToZero ==
    [][/\ (vc_pc \in {"measure", "perf"} /\ vc_cycle'.pmc_outcome \in NoCounts
             /\ vc_cycle.pmc_outcome = "none")
            => /\ vc_pc' = AfterMeasure
               /\ vc_cycle'.pmc_data = EmptyDict
               /\ vc_loop' = vc_loop
               /\ feature_data' = feature_data
       /\ (vc_pc = "return_point" /\ vc_cycle.pmc_outcome \in NoCounts)
            => /\ vc_cycle.point # None
               /\ ZeroPmcFeatures(TheValue(vc_cycle.point))
               /\ TheValue(vc_cycle.point).sys_context_switches = CycleContextSwitches
       /\ (vc_cycle.pmc_outcome \in NoCounts /\ feature_data' # feature_data)
            => /\ feature_data' = Append(feature_data, TheValue(vc_cycle.point))
               /\ vc_loop'.error_count = vc_loop.error_count
               /\ vc_loop'.collection_count = vc_loop.collection_count + 1
      ]_vars

\* C25 witness: a synchronized cycle whose perf run failed has appended its
\* point, with context switches counted over its window and no error counted
DegradedPointReached ==
    /\ vc_pc = "schedule"
    /\ synchronized
    /\ vc_cycle.pmc_outcome = "failed"
    /\ feature_data # <<>>
    /\ vc_cycle.point = Some(feature_data[Len(feature_data)])
    /\ ZeroPmcFeatures(feature_data[Len(feature_data)])
    /\ feature_data[Len(feature_data)].sys_context_switches > 0
    /\ vc_loop.error_count = 0

\* ------------------------------------------------------------------ function claims
HasKey(d, key) == \E kv \in d : kv[1] = key

\* curr - prev when curr >= prev, and 0 otherwise
Clamped(curr, prev) == IF curr >= prev THEN curr - prev ELSE 0

ProcCall == fn_call.fn = "_compute_proc_stat_deltas"

OsCall == fn_call.fn = "_compute_os_metrics_from_snapshots"

\* The cpu lines of the two snapshots of a _compute_proc_stat_deltas call
PrevCpu == Get(fn_call.prev_stat, "cpu", EmptyDict)

CurrCpu == Get(fn_call.curr_stat, "cpu", EmptyDict)

\* The cpu times of the two snapshots of a _compute_os_metrics_from_snapshots call
Cpu0 == Get(fn_call.snap0, "cpu_times", EmptyDict)

Cpu1 == Get(fn_call.snap1, "cpu_times", EmptyDict)

\* C21: every reported delta is curr - prev when curr >= prev and 0 otherwise,
\* and sys_cpu_utilization and cpu_utilization lie in [0, 100]
DeltasClampedUtilizationBounded ==
    /\ (ProcCall /\ fn_call.result # EmptyDict) =>
          /\ Get(fn_call.result, "sys_context_switches", 0)
                = Clamped(Get(fn_call.curr_stat, "context_switches", 0),
                          Get(fn_call.prev_stat, "context_switches", 0))
          /\ HasKey(fn_call.result, "sys_cpu_utilization") =>
                /\ Get(fn_call.result, "sys_cpu_user_seconds", 0)
                      = FDiv(Float(Clamped(Get(CurrCpu, "user", 0), Get(PrevCpu, "user", 0))),
                             Float(JiffiesPerSecond))
                /\ Get(fn_call.result, "sys_cpu_utilization", 0) >= 0
                /\ Get(fn_call.result, "sys_cpu_utilization", 0) <= Float(Hundred)
    /\ OsCall =>
          /\ Get(fn_call.result, "network_bytes_sent", 0)
                = Clamped(Get(Get(fn_call.snap1, "net_io", EmptyDict), "bytes_sent", 0),
                          Get(Get(fn_call.snap0, "net_io", EmptyDict), "bytes_sent", 0))
          /\ Get(fn_call.result, "cpu_utilization", 0) >= 0
          /\ Get(fn_call.result, "cpu_utilization", 0) <= Float(Hundred)

\* C22: when every per-field CPU delta of the window is 0, sys_cpu_utilization
\* is 0 and the cpu_utilization of the emitted point is 0
ZeroTicksZeroUtilization ==
    /\ (/\ ProcCall
        /\ HasKey(fn_call.result, "sys_cpu_utilization")
        /\ \A k \in 1..Len(CpuFields) : DeltaJiffies(PrevCpu, CurrCpu, CpuFields[k]) = 0)
          => Get(fn_call.result, "sys_cpu_utilization", 0) = 0
    /\ (/\ OsCall
        /\ \A k \in 1..Len(CpuFields) : OsDelta(Cpu0, Cpu1, CpuFields[k]) = 0)
          => fn_call.cpu_utilization = 0

\* C23: a counter that one of the two snapshots does not hold has no output in
\* the result, and the outputs of the counters both snapshots hold are there
AbsentCounterOmitted ==
    (ProcCall /\ fn_call.prev_stat # EmptyDict /\ fn_call.curr_stat # EmptyDict) =>
        /\ HasKey(fn_call.result, "sys_context_switches")
              <=> (HasKey(fn_call.prev_stat, "context_switches")
                   /\ HasKey(fn_call.curr_stat, "context_switches"))
        /\ HasKey(fn_call.result, "sys_cpu_utilization")
              <=> (HasKey(fn_call.prev_stat, "cpu") /\ HasKey(fn_call.curr_stat, "cpu"))

DerivedCall == fn_call.fn = "calculate_derived_features"

\* The ratio the call returned under the given name
ReturnedRatio(name) == Get(fn_call.result, name, <<>>)

\* numerator / divisor when the divisor counter is there and > 0, and 0 when it
\* is 0 or missing; the division is not one by zero
SafeQuotient(name, numerator, divisor) ==
    /\ IF HasKey(fn_call.pmc_data, divisor) /\ Get(fn_call.pmc_data, divisor, 0) > 0
       THEN ReturnedRatio(name) = <<Get(fn_call.pmc_data, numerator, 0),
                                    Get(fn_call.pmc_data, divisor, 0)>>
       ELSE ReturnedRatio(name) = Zero
    /\ ReturnedRatio(name)[2] # 0

\* C24: instructions_per_cycle, cache_miss_ratio and branch_miss_ratio are
\* numerator / divisor when the divisor counter is > 0 and exactly 0 when it is 0
\* or missing, and no division by zero is made
SafeDivision ==
    DerivedCall =>
        /\ SafeQuotient("instructions_per_cycle", "instructions", "cpu_cycles")
        /\ SafeQuotient("cache_miss_ratio", "cache_misses", "cache_references")
        /\ SafeQuotient("branch_miss_ratio", "branch_misses", "branches")

\* C24 witness: one call with a zero divisor under a positive numerator, a
\* missing divisor under a positive numerator, and a positive divisor
ZeroAndMissingDivisorReached ==
    /\ DerivedCall
    /\ HasKey(fn_call.pmc_data, "cpu_cycles")
    /\ Get(fn_call.pmc_data, "cpu_cycles", 1) = 0
    /\ Get(fn_call.pmc_data, "instructions", 0) > 0
    /\ ~HasKey(fn_call.pmc_data, "cache_references")
    /\ Get(fn_call.pmc_data, "cache_misses", 0) > 0
    /\ ReturnedRatio("instructions_per_cycle") = Zero
    /\ ReturnedRatio("cache_miss_ratio") = Zero
    /\ ReturnedRatio("branch_miss_ratio") = <<1, 2>>

SummaryCall == fn_call.fn = "print_merge_summary"

\* The rating of the match rate r = matched_points / vm_feature_points * 100:
\* Excellent when r >= 90, Good when 80 <= r < 90, Fair when 60 <= r < 80, Poor
\* when r < 60
RatingOfRate(matched_points, vm_feature_points) ==
    IF matched_points * 100 >= 90 * vm_feature_points THEN "Excellent"
    ELSE IF matched_points * 100 >= 80 * vm_feature_points THEN "Good"
    ELSE IF matched_points * 100 >= 60 * vm_feature_points THEN "Fair"
    ELSE "Poor"

\* C28: the rating print_merge_summary prints is the rating of the match rate,
\* whatever the other statistics and the tolerance are, a rating is printed
\* whenever a point was matched, and the recommendations are printed only when
\* the match rate is below 80
RatingFollowsMatchRate ==
    SummaryCall =>
        LET stats == fn_call.statistics
            printed == fn_call.result
        IN  /\ printed.quality_rating # "none" =>
                  printed.quality_rating = RatingOfRate(stats.matched_points,
                                                        stats.vm_feature_points)
            /\ stats.matched_points > 0 => printed.quality_rating # "none"
            /\ printed.recommendations =>
                  stats.matched_points * 100 < 80 * stats.vm_feature_points
            /\ printed.advice # {} => printed.recommendations

\* C28 witness: a summary for a match rate of exactly 80 percent, with unmatched
\* features and a mean difference that would both call for a recommendation
BoundaryRateRated ==
    /\ SummaryCall
    /\ fn_call.statistics.matched_points = 8
    /\ fn_call.statistics.vm_feature_points = 10
    /\ fn_call.statistics.average_time_diff.sum = MaxTol
    /\ fn_call.result.quality_rating = "Good"
    /\ ~fn_call.result.recommendations

ParseCall == fn_call.fn = "_parse_vm_metrics"

\* The number of occurrences of a token in a line
CountOf(line, token) == Cardinality({i \in 1..Len(line) : line[i] = token})

\* The text after the last space of a line, <<>> when the line has no space
ValueText(line) ==
    IF Find(line, " ") = -1 THEN <<>> ELSE SubSeq(line, RFind(line, " ") + 2, Len(line))

\* A target-metric line that has no numeric suffix, a value that is no number,
\* or unbalanced braces
Malformed(line) ==
    /\ IsTargetLine(line)
    /\ \/ ValueText(line) = <<>>
       \/ FloatOf(ValueText(line)) = None
       \/ CountOf(line, "{") # CountOf(line, "}")

\* C26: the readings returned for a scrape are those of the scrape with its
\* malformed target-metric lines removed
MalformedLinesIgnored ==
    ParseCall =>
        fn_call.result
           = ParseVmMetricsText(SelectSeq(fn_call.lines, LAMBDA line : ~Malformed(line)))

\* ------------------------------------------------------------------ specification
\* merge_datasets.main: the command line gives the merger's configuration, and
\* merge_datasets is called once
InitMerge ==
    /\ time_tolerance \in 0..MaxTol
    /\ min_power_threshold \in {0, MaxWatts}
    /\ power_zone \in {"core", "package", "dram"}
    /\ merge_budget = 1
    /\ MergerInit
    /\ CollectorIdle
    /\ PowerCollectorIdle
    /\ fn_call = NoCall /\ OrchestratorIdle

\* A caller other than main, which calls merge_datasets again on the same merger
InitRemerge ==
    /\ time_tolerance = MaxTol
    /\ min_power_threshold \in {0, MaxWatts}
    /\ power_zone = "core"
    /\ merge_budget = MaxMergeCalls
    /\ MergerInit
    /\ CollectorIdle
    /\ PowerCollectorIdle
    /\ fn_call = NoCall /\ OrchestratorIdle

NextMerge ==
    \/ \E file \in FeatureFiles : load_vm_features(file) /\ UNCHANGED <<collector_vars, power_vars, fn_call, orch_vars>>
    \/ \E file \in PowerFiles : load_bm_power(file) /\ UNCHANGED <<collector_vars, power_vars, fn_call, orch_vars>>
    \/ merge_datasets /\ UNCHANGED <<collector_vars, power_vars, fn_call, orch_vars>>

SpecMerge == InitMerge /\ [][NextMerge]_vars

SpecRemerge == InitRemerge /\ [][NextMerge]_vars

InitScenario ==
    /\ time_tolerance = DefaultTimeTolerance
    /\ min_power_threshold = 0
    /\ power_zone \in {"core", "package", "dram"}
    /\ merge_budget = 1
    /\ MergerInit
    /\ CollectorIdle
    /\ PowerCollectorIdle
    /\ fn_call = NoCall /\ OrchestratorIdle

NextScenario ==
    \/ \E file \in ScenarioFeatureFiles : load_vm_features(file) /\ UNCHANGED <<collector_vars, power_vars, fn_call, orch_vars>>
    \/ \E file \in ScenarioPowerFiles : load_bm_power(file) /\ UNCHANGED <<collector_vars, power_vars, fn_call, orch_vars>>
    \/ merge_datasets /\ UNCHANGED <<collector_vars, power_vars, fn_call, orch_vars>>

SpecScenario == InitScenario /\ [][NextScenario]_vars

\* A merger that is not run
MergerIdle ==
    /\ time_tolerance = 0
    /\ min_power_threshold = 0
    /\ power_zone = "core"
    /\ merge_budget = 0
    /\ vm_data = <<>>
    /\ bm_data = <<>>
    /\ merged_data = <<>>
    /\ statistics = MergeStatistics
    /\ merge_pc = "off"
    /\ merge_calls = 0
    /\ merge_result = "None"
    /\ output_file = None
    /\ summary = None

\* vm_feature_collector.main
InitCollector == CollectorInit /\ MergerIdle /\ PowerCollectorIdle /\ fn_call = NoCall /\ OrchestratorIdle

NextCollector ==
    \/ Tick /\ UNCHANGED <<merger_vars, power_vars, fn_call, orch_vars>>
    \/ signal_handler /\ UNCHANGED <<merger_vars, power_vars, fn_call, orch_vars>>
    \/ collect_vm_features /\ UNCHANGED <<merger_vars, power_vars, fn_call, orch_vars>>
    \/ LoopTest /\ UNCHANGED <<merger_vars, power_vars, fn_call, orch_vars>>
    \/ SnapshotT0 /\ UNCHANGED <<merger_vars, power_vars, fn_call, orch_vars>>
    \/ LegacySnapshot /\ UNCHANGED <<merger_vars, power_vars, fn_call, orch_vars>>
    \/ PmcUnavailable /\ UNCHANGED <<merger_vars, power_vars, fn_call, orch_vars>>
    \/ PerfStart /\ UNCHANGED <<merger_vars, power_vars, fn_call, orch_vars>>
    \/ PerfSucceeds /\ UNCHANGED <<merger_vars, power_vars, fn_call, orch_vars>>
    \/ PerfFails /\ UNCHANGED <<merger_vars, power_vars, fn_call, orch_vars>>
    \/ ReadAfterPmc /\ UNCHANGED <<merger_vars, power_vars, fn_call, orch_vars>>
    \/ WaitRemainder /\ UNCHANGED <<merger_vars, power_vars, fn_call, orch_vars>>
    \/ SnapshotT1 /\ UNCHANGED <<merger_vars, power_vars, fn_call, orch_vars>>
    \/ LegacyBuild /\ UNCHANGED <<merger_vars, power_vars, fn_call, orch_vars>>
    \/ CycleFails /\ UNCHANGED <<merger_vars, power_vars, fn_call, orch_vars>>
    \/ Emit /\ UNCHANGED <<merger_vars, power_vars, fn_call, orch_vars>>
    \/ LoopBodyRaises /\ UNCHANGED <<merger_vars, power_vars, fn_call, orch_vars>>
    \/ Schedule /\ UNCHANGED <<merger_vars, power_vars, fn_call, orch_vars>>
    \/ SleepNext /\ UNCHANGED <<merger_vars, power_vars, fn_call, orch_vars>>
    \/ Finish /\ UNCHANGED <<merger_vars, power_vars, fn_call, orch_vars>>
    \/ SaveFeatureData /\ UNCHANGED <<merger_vars, power_vars, fn_call, orch_vars>>

SpecCollector == InitCollector /\ [][NextCollector]_vars

\* bm_power_collector.main after the connectivity test: one Kepler with steady
\* readings, no filter
InitPower ==
    /\ PowerCollectorInit
    /\ kepler_scrapes = "steady"
    /\ target_vms = None
    /\ vm_pattern = None
    /\ MergerIdle
    /\ CollectorIdle
    /\ fn_call = NoCall /\ OrchestratorIdle

NextPower ==
    \/ PowerTick /\ UNCHANGED <<merger_vars, collector_vars, fn_call, orch_vars>>
    \/ power_signal_handler /\ UNCHANGED <<merger_vars, collector_vars, fn_call, orch_vars>>
    \/ collect_power_data /\ UNCHANGED <<merger_vars, collector_vars, fn_call, orch_vars>>
    \/ SyncWait /\ UNCHANGED <<merger_vars, collector_vars, fn_call, orch_vars>>
    \/ PowerLoopTest /\ UNCHANGED <<merger_vars, collector_vars, fn_call, orch_vars>>
    \/ SleepTarget /\ UNCHANGED <<merger_vars, collector_vars, fn_call, orch_vars>>
    \/ FetchEnter /\ UNCHANGED <<merger_vars, collector_vars, fn_call, orch_vars>>
    \/ GetSucceeds /\ UNCHANGED <<merger_vars, collector_vars, fn_call, orch_vars>>
    \/ GetFails /\ UNCHANGED <<merger_vars, collector_vars, fn_call, orch_vars>>
    \/ GetUnexpected /\ UNCHANGED <<merger_vars, collector_vars, fn_call, orch_vars>>
    \/ Backoff /\ UNCHANGED <<merger_vars, collector_vars, fn_call, orch_vars>>
    \/ PowerAppend /\ UNCHANGED <<merger_vars, collector_vars, fn_call, orch_vars>>
    \/ PowerMissing /\ UNCHANGED <<merger_vars, collector_vars, fn_call, orch_vars>>
    \/ SleepError /\ UNCHANGED <<merger_vars, collector_vars, fn_call, orch_vars>>
    \/ PowerFinish /\ UNCHANGED <<merger_vars, collector_vars, fn_call, orch_vars>>
    \/ SavePowerData /\ UNCHANGED <<merger_vars, collector_vars, fn_call, orch_vars>>

SpecPower == InitPower /\ [][NextPower]_vars

\* One call of collect_power_metrics_with_timestamp on a started collector, with
\* any scrape and any filter
InitFetch ==
    /\ bm_clock = 0
    /\ kepler_scrapes = "any"
    /\ bm_collection_interval = 1
    /\ max_retries \in 1..MaxRetries
    /\ target_vms \in {None} \cup {Some(names) : names \in NameSets}
    /\ vm_pattern \in {None} \cup {Some(pattern) : pattern \in Patterns}
    /\ sync_start_time = None
    /\ bm_duration = 1
    /\ power_data = <<>>
    /\ bm_collection_active = TRUE
    /\ bm_shutdown_requested = FALSE
    /\ collection_start_time = Some(0)
    /\ bp_pc = "fetch"
    /\ bp_loop = NoPowerLoop
    /\ bp_fetch = NoFetch
    /\ power_file = None
    /\ MergerIdle
    /\ CollectorIdle
    /\ fn_call = NoCall /\ OrchestratorIdle

NextFetch ==
    \/ PowerTick /\ UNCHANGED <<merger_vars, collector_vars, fn_call, orch_vars>>
    \/ FetchEnter /\ UNCHANGED <<merger_vars, collector_vars, fn_call, orch_vars>>
    \/ GetSucceeds /\ UNCHANGED <<merger_vars, collector_vars, fn_call, orch_vars>>
    \/ GetFails /\ UNCHANGED <<merger_vars, collector_vars, fn_call, orch_vars>>
    \/ GetUnexpected /\ UNCHANGED <<merger_vars, collector_vars, fn_call, orch_vars>>
    \/ Backoff /\ UNCHANGED <<merger_vars, collector_vars, fn_call, orch_vars>>
    \/ FetchReturn /\ UNCHANGED <<merger_vars, collector_vars, fn_call, orch_vars>>

SpecFetch == InitFetch /\ [][NextFetch]_vars

\* merge_datasets.main to its end
NextMergeMain ==
    \/ \E file \in FeatureFiles : load_vm_features(file) /\ UNCHANGED <<collector_vars, power_vars, fn_call, orch_vars>>
    \/ \E file \in PowerFiles : load_bm_power(file) /\ UNCHANGED <<collector_vars, power_vars, fn_call, orch_vars>>
    \/ merge_datasets /\ UNCHANGED <<collector_vars, power_vars, fn_call, orch_vars>>
    \/ MainMergeFailed /\ UNCHANGED <<collector_vars, power_vars, fn_call, orch_vars>>
    \/ MainSaveFails /\ UNCHANGED <<collector_vars, power_vars, fn_call, orch_vars>>
    \/ MainSaves /\ UNCHANGED <<collector_vars, power_vars, fn_call, orch_vars>>

SpecMergeMain == InitMerge /\ [][NextMergeMain]_vars

\* bm_power_collector.main from its connectivity test on
InitPowerMain ==
    /\ bm_clock = 0
    /\ kepler_scrapes = "steady"
    /\ bm_collection_interval \in 1..MaxBmInterval
    /\ max_retries \in 1..MaxRetries
    /\ target_vms = None
    /\ vm_pattern = None
    /\ sync_start_time \in {None, Some(MaxSyncStart)}
    /\ bm_duration = 1
    /\ power_data = <<>>
    /\ bm_collection_active = FALSE
    /\ bm_shutdown_requested = FALSE
    /\ collection_start_time = None
    /\ bp_pc = "probe"
    /\ bp_loop = NoPowerLoop
    /\ bp_fetch = NoFetch
    /\ power_file = None
    /\ MergerIdle
    /\ CollectorIdle
    /\ fn_call = NoCall /\ OrchestratorIdle

NextPowerMain ==
    \/ ProbeSucceeds /\ UNCHANGED <<merger_vars, collector_vars, fn_call, orch_vars>>
    \/ ProbeFails /\ UNCHANGED <<merger_vars, collector_vars, fn_call, orch_vars>>
    \/ ProbeUnexpected /\ UNCHANGED <<merger_vars, collector_vars, fn_call, orch_vars>>
    \/ ProbeBackoff /\ UNCHANGED <<merger_vars, collector_vars, fn_call, orch_vars>>
    \/ NextPower

\* ------------------------------------------------------------------ orchestrator
\* TrainingDataOrchestrator of orchestrate_training_data_collection.py. The model follows
\* orchestrate_collection step by step, next to what it starts and does not control: the
\* connection to the VM, the two processes on the VM and the power collector child.

\* Cycles of the longest child run, and the log lines its stderr pipe holds
MaxChildCycles == 3

PipeCapacity == 2

MaxOrchSignals == 2

OrchRunning == orch_pc \notin {"off", "returned", "raised", "exit_1"}

orch_flags == <<orch_collection_active, orch_shutdown_requested, orch_signals>>

orch_child == <<bm_power_process, bm_child, child_cycles, pipe_fill>>

orch_remote == <<remote_stress, remote_collector, vm_features_file>>

orch_ssh == <<ssh_client, ssh_connection>>

\* An exception leaves the try block for the except clause
OrchRaise ==
    /\ orch_pc' = "except"
    /\ orch_outcome' = "raise"

\* _execute_vm_command raises unless the command goes through the connection
VmCommandSucceeds == ssh_client # "none" /\ ssh_connection = "open"

\* orchestrate_collection up to the try block
OrchestrateCollection ==
    /\ orch_pc = "init"
    /\ orch_collection_active' = TRUE
    /\ orch_pc' = "setup_ssh"
    /\ UNCHANGED <<orch_outcome, orch_ssh, orch_shutdown_requested, orch_signals,
                   orch_child, orch_remote, local_vm_features_file, orch_log>>

\* 1. setup_ssh_connection: the client object is assigned before connect is tried
SetupSshConnection ==
    /\ orch_pc = "setup_ssh"
    /\ ssh_client' = "client"
    /\ \/ /\ ssh_connection' = "open"
          /\ orch_pc' = "check"
          /\ UNCHANGED orch_outcome
       \/ /\ UNCHANGED ssh_connection
          /\ OrchRaise
    /\ UNCHANGED <<orch_flags, orch_child, orch_remote, local_vm_features_file, orch_log>>

\* 2. _check_vm_project_structure: False on a failed command or a missing file
CheckVmProjectStructure ==
    /\ orch_pc = "check"
    /\ \/ /\ VmCommandSucceeds
          /\ orch_pc' = "mkdir"
          /\ UNCHANGED orch_outcome
       \/ OrchRaise
    /\ UNCHANGED <<orch_ssh, orch_flags, orch_child, orch_remote,
                   local_vm_features_file, orch_log>>

\* 3. _execute_vm_command("mkdir -p data")
MakeVmDataDirectory ==
    /\ orch_pc = "mkdir"
    /\ IF VmCommandSucceeds
       THEN orch_pc' = "stress" /\ UNCHANGED orch_outcome
       ELSE OrchRaise
    /\ UNCHANGED <<orch_ssh, orch_flags, orch_child, orch_remote,
                   local_vm_features_file, orch_log>>

\* 4. start_vm_stress_workloads
StartVmStressWorkloads ==
    /\ orch_pc = "stress"
    /\ IF VmCommandSucceeds
       THEN /\ remote_stress' = "running"
            /\ orch_pc' = "vm_collect"
            /\ UNCHANGED orch_outcome
       ELSE /\ OrchRaise
            /\ UNCHANGED remote_stress
    /\ UNCHANGED <<orch_ssh, orch_flags, orch_child, remote_collector, vm_features_file,
                   local_vm_features_file, orch_log>>

\* 5. start_vm_feature_collection
StartVmFeatureCollection ==
    /\ orch_pc = "vm_collect"
    /\ IF VmCommandSucceeds
       THEN /\ remote_collector' = "running"
            /\ orch_pc' = "bm_start"
            /\ UNCHANGED orch_outcome
       ELSE /\ OrchRaise
            /\ UNCHANGED remote_collector
    /\ UNCHANGED <<orch_ssh, orch_flags, orch_child, remote_stress, vm_features_file,
                   local_vm_features_file, orch_log>>

\* start_baremetal_power_collection: Popen with stdout and stderr as pipes, or an
\* exception of Popen. The child runs duration / interval cycles
StartBaremetalPowerCollection ==
    /\ orch_pc = "bm_start"
    /\ \/ /\ bm_power_process' = "popen"
          /\ bm_child' = "running"
          /\ child_cycles' \in 0..MaxChildCycles
          /\ pipe_fill' = 0
          /\ orch_pc' = "wait_bm"
          /\ UNCHANGED orch_outcome
       \/ /\ OrchRaise
          /\ UNCHANGED orch_child
    /\ UNCHANGED <<orch_ssh, orch_flags, orch_remote, local_vm_features_file, orch_log>>

\* self.bm_power_process.wait() returns once the child has exited
WaitBaremetalPowerProcess ==
    /\ orch_pc = "wait_bm"
    /\ bm_power_process = "none" \/ bm_child \in {"exited", "stopped"}
    /\ orch_pc' = "copy"
    /\ UNCHANGED <<orch_outcome, orch_ssh, orch_flags, orch_child, orch_remote,
                   local_vm_features_file, orch_log>>

\* 9. copy_vm_data: sftp.get copies what the file on the VM holds at that moment, and
\* fails without a connection or without a file. Then the return statement
CopyVmData ==
    /\ orch_pc = "copy"
    /\ IF VmCommandSucceeds /\ vm_features_file # "absent"
       THEN /\ local_vm_features_file' = vm_features_file
            /\ orch_pc' = "finally"
            /\ orch_outcome' = "return"
       ELSE /\ OrchRaise
            /\ UNCHANGED local_vm_features_file
    /\ UNCHANGED <<orch_ssh, orch_flags, orch_child, orch_remote, orch_log>>

\* What _stop_vm_processes logs: nothing without a client, an error when a pkill command
\* raises (the first to raise skips the others), "VM processes stopped" otherwise
StopVmLogged ==
    IF ssh_client = "none" THEN <<>>
    ELSE IF VmCommandSucceeds THEN <<"vm_stopped">> ELSE <<"vm_stop_error">>

LeftRunning(process) == process

Killed(process) == IF process = "running" \/ process = "saving" THEN "killed" ELSE process

\* _stop_vm_processes
StopVmProcesses ==
    /\ IF VmCommandSucceeds
       THEN /\ remote_stress' = Killed(remote_stress)
            /\ remote_collector' = Killed(remote_collector)
       ELSE UNCHANGED <<remote_stress, remote_collector>>
    /\ UNCHANGED vm_features_file

\* _stop_baremetal_collection: terminate, wait ten seconds, kill
StopBaremetalCollection ==
    /\ bm_child' = IF bm_power_process # "none" /\ bm_child = "running"
                   THEN "stopped" ELSE bm_child
    /\ bm_power_process' = "none"
    /\ UNCHANGED <<child_cycles, pipe_fill>>

StopBaremetalLogged == IF bm_power_process # "none" THEN <<"bm_stopped">> ELSE <<>>

\* _disconnect_ssh
DisconnectSsh ==
    /\ ssh_connection' = IF ssh_client # "none" /\ ssh_connection \in {"open", "broken"}
                         THEN "closed" ELSE ssh_connection
    /\ ssh_client' = "none"

DisconnectLogged == IF ssh_client # "none" THEN <<"ssh_closed">> ELSE <<>>

\* The except clause: _stop_vm_processes, _stop_baremetal_collection, raise
OrchExcept ==
    /\ orch_pc = "except"
    /\ StopVmProcesses
    /\ StopBaremetalCollection
    /\ orch_log' = orch_log \o StopVmLogged \o StopBaremetalLogged
    /\ orch_pc' = "finally"
    /\ UNCHANGED <<orch_outcome, orch_ssh, orch_flags, local_vm_features_file>>

\* The finally clause, and control leaving orchestrate_collection
OrchFinally ==
    /\ orch_pc = "finally"
    /\ orch_collection_active' = FALSE
    /\ DisconnectSsh
    /\ orch_log' = orch_log \o DisconnectLogged
    /\ orch_pc' = CASE orch_outcome = "return" -> "returned"
                    [] orch_outcome = "raise" -> "raised"
                    [] OTHER -> "exit_1"
    /\ UNCHANGED <<orch_outcome, orch_shutdown_requested, orch_signals, orch_child,
                   orch_remote, local_vm_features_file>>

\* _signal_handler: the first signal sets the flags; a second one runs _force_cleanup
\* (_stop_baremetal_collection, _stop_vm_processes, _disconnect_ssh) and sys.exit(1),
\* whose SystemExit passes the except clause and runs the finally clause
\* Signals are taken from the start of orchestrate_collection on
OrchSignalHandler ==
    /\ OrchRunning
    /\ orch_pc # "init"
    /\ orch_signals < MaxOrchSignals
    /\ orch_signals' = orch_signals + 1
    /\ IF orch_shutdown_requested
       THEN /\ StopBaremetalCollection
            /\ StopVmProcesses
            /\ DisconnectSsh
            /\ orch_log' = orch_log \o StopBaremetalLogged \o StopVmLogged
                                    \o DisconnectLogged
            /\ orch_pc' = "finally"
            /\ orch_outcome' = "exit"
            /\ UNCHANGED <<orch_collection_active, orch_shutdown_requested,
                           local_vm_features_file>>
       ELSE /\ orch_shutdown_requested' = TRUE
            /\ orch_collection_active' = FALSE
            /\ UNCHANGED <<orch_pc, orch_outcome, orch_ssh, orch_child, orch_remote,
                           local_vm_features_file, orch_log>>

\* The connection to the VM breaks
SshConnectionBreaks ==
    /\ OrchRunning
    /\ ssh_connection = "open"
    /\ ssh_connection' = "broken"
    /\ UNCHANGED <<orch_pc, orch_outcome, ssh_client, orch_flags, orch_child, orch_remote,
                   local_vm_features_file, orch_log>>

\* One cycle of the child: with --verbose it logs a line to stderr, which blocks while
\* the pipe is full
ChildCollectionCycle ==
    /\ bm_child = "running"
    /\ child_cycles > 0
    /\ pipe_fill < PipeCapacity
    /\ pipe_fill' = pipe_fill + 1
    /\ child_cycles' = child_cycles - 1
    /\ UNCHANGED <<orch_pc, orch_outcome, orch_ssh, orch_flags, bm_power_process, bm_child,
                   orch_remote, local_vm_features_file, orch_log>>

\* The child exits after its last cycle
ChildExits ==
    /\ bm_child = "running"
    /\ child_cycles = 0
    /\ bm_child' = "exited"
    /\ UNCHANGED <<orch_pc, orch_outcome, orch_ssh, orch_flags, bm_power_process,
                   child_cycles, pipe_fill, orch_remote, local_vm_features_file, orch_log>>

\* The feature collector on the VM: collect_vm_features ends and save_feature_data opens
\* the output file, or the collector exits without a file
RemoteCollectorSaves ==
    /\ remote_collector = "running"
    /\ \/ remote_collector' = "saving" /\ vm_features_file' = "partial"
       \/ remote_collector' = "failed" /\ UNCHANGED vm_features_file
    /\ UNCHANGED <<orch_pc, orch_outcome, orch_ssh, orch_flags, orch_child, remote_stress,
                   local_vm_features_file, orch_log>>

\* save_feature_data has written the file and the collector exits
RemoteCollectorFinishes ==
    /\ remote_collector = "saving"
    /\ remote_collector' = "finished"
    /\ vm_features_file' = "complete"
    /\ UNCHANGED <<orch_pc, orch_outcome, orch_ssh, orch_flags, orch_child, remote_stress,
                   local_vm_features_file, orch_log>>

\* stress_workloads.py ends after its total duration
RemoteStressEnds ==
    /\ remote_stress = "running"
    /\ remote_stress' = "ended"
    /\ UNCHANGED <<orch_pc, orch_outcome, orch_ssh, orch_flags, orch_child,
                   remote_collector, vm_features_file, local_vm_features_file, orch_log>>

IdleBesideOrchestrator == UNCHANGED <<merger_vars, collector_vars, power_vars, fn_call>>

InitOrchestrate ==
    /\ orch_pc = "init"
    /\ OrchestratorFields
    /\ MergerIdle
    /\ CollectorIdle
    /\ PowerCollectorIdle
    /\ fn_call = NoCall

NextOrchestrate ==
    \/ OrchestrateCollection /\ IdleBesideOrchestrator
    \/ SetupSshConnection /\ IdleBesideOrchestrator
    \/ CheckVmProjectStructure /\ IdleBesideOrchestrator
    \/ MakeVmDataDirectory /\ IdleBesideOrchestrator
    \/ StartVmStressWorkloads /\ IdleBesideOrchestrator
    \/ StartVmFeatureCollection /\ IdleBesideOrchestrator
    \/ StartBaremetalPowerCollection /\ IdleBesideOrchestrator
    \/ WaitBaremetalPowerProcess /\ IdleBesideOrchestrator
    \/ CopyVmData /\ IdleBesideOrchestrator
    \/ OrchExcept /\ IdleBesideOrchestrator
    \/ OrchFinally /\ IdleBesideOrchestrator
    \/ OrchSignalHandler /\ IdleBesideOrchestrator
    \/ SshConnectionBreaks /\ IdleBesideOrchestrator
    \/ ChildCollectionCycle /\ IdleBesideOrchestrator
    \/ ChildExits /\ IdleBesideOrchestrator
    \/ RemoteCollectorSaves /\ IdleBesideOrchestrator
    \/ RemoteCollectorFinishes /\ IdleBesideOrchestrator
    \/ RemoteStressEnds /\ IdleBesideOrchestrator

SpecOrchestrate == InitOrchestrate /\ [][NextOrchestrate]_vars

\* The orchestrator's own steps and those of the processes it started, which go on
\* whenever they can; signals and a breaking connection may or may not happen
OrchProgress ==
    \/ OrchestrateCollection \/ SetupSshConnection \/ CheckVmProjectStructure
    \/ MakeVmDataDirectory \/ StartVmStressWorkloads \/ StartVmFeatureCollection
    \/ StartBaremetalPowerCollection \/ WaitBaremetalPowerProcess \/ CopyVmData
    \/ OrchExcept \/ OrchFinally \/ ChildCollectionCycle \/ ChildExits
    \/ RemoteCollectorSaves \/ RemoteCollectorFinishes \/ RemoteStressEnds

SpecOrchestrateFair ==
    /\ InitOrchestrate
    /\ [][NextOrchestrate]_vars
    /\ WF_vars(OrchProgress /\ IdleBesideOrchestrator)

\* ------------------------------------------------------------------ orchestrator claims
OrchReturning == orch_outcome = "return" /\ orch_pc \in {"finally", "returned"}

\* C31: orchestrate_collection copies the feature file and returns the file pair only
\* after both collectors have finished: the power collector child has exited, and the
\* feature collector on the VM has completed and has written its output file.
ReturnsAfterBothFinished ==
    OrchReturning
        => /\ bm_child = "exited"
           /\ remote_collector = "finished"
           /\ local_vm_features_file = "complete"

\* The half that the wait does give: the power collector child has exited, and a file
\* was on the VM when it was copied
PowerChildExitedAtReturn ==
    OrchReturning => bm_child = "exited" /\ local_vm_features_file # "absent"

\* C38: the wait for the power collector child always ends: the child, whose stderr is
\* a pipe of bounded capacity that the orchestrator never reads and which logs on every
\* cycle, exits in the end, whatever the number of its cycles.
WaitAlwaysTerminates == (orch_pc = "wait_bm") ~> (orch_pc # "wait_bm")

\* The child is blocked on the full pipe while the orchestrator waits for it
ChildBlockedOnPipe ==
    /\ orch_pc = "wait_bm"
    /\ bm_child = "running"
    /\ child_cycles > 0
    /\ pipe_fill = PipeCapacity

OrchExited == orch_pc \in {"returned", "raised", "exit_1"}

RemoteProcessesStopped ==
    /\ remote_stress # "running"
    /\ remote_collector \notin {"running", "saving"}

InitSetup == InitMerge \/ InitPowerMain

NextSetup == NextMergeMain \/ NextPowerMain

SpecSetup == InitSetup /\ [][NextSetup]_vars

\* Single calls of the collectors' and the merger's functions on given arguments
InitCalls ==
    /\ fn_call = NoCall /\ OrchestratorIdle
    /\ MergerIdle
    /\ CollectorIdle
    /\ PowerCollectorIdle

NextCalls ==
    \/ CallComputeProcStatDeltas /\ UNCHANGED <<merger_vars, collector_vars, power_vars, orch_vars>>
    \/ CallComputeOsMetrics /\ UNCHANGED <<merger_vars, collector_vars, power_vars, orch_vars>>
    \/ CallCalculateDerivedFeatures /\ UNCHANGED <<merger_vars, collector_vars, power_vars, orch_vars>>
    \/ CallParseVmMetrics /\ UNCHANGED <<merger_vars, collector_vars, power_vars, orch_vars>>
    \/ CallPrintMergeSummary /\ UNCHANGED <<merger_vars, collector_vars, power_vars, orch_vars>>

SpecCalls == InitCalls /\ [][NextCalls]_vars

\* The two collectors, each to the end of its run
InitOutput == InitCollector \/ InitPower

NextOutput == NextCollector \/ NextPower

SpecOutput == InitOutput /\ [][NextOutput]_vars

Init == InitMerge \/ InitCollector \/ InitPower

Next == NextMerge \/ NextCollector \/ NextPower

Spec == Init /\ [][Next]_vars

====
